---------------------------- MODULE Spec2Model ----------------------------
(***************************************************************************)
(* A model of the document-to-structured-content core of booksy            *)
(* (src/services/geminiService.ts):                                        *)
(*   - callApiWithRetry, the retry wrapper around every remote call;       *)
(*   - parseJsonResponse, the extraction of a JSON payload from free text; *)
(*   - analyzeDocumentStructure, the chapter outline and its page-range    *)
(*     reconciliation;                                                     *)
(*   - generateInitialQuestions, with its own attempt loop, and the        *)
(*     normalisation of interactive blocks (assignIdsToBlocks);            *)
(*   - getFeedbackOnAnswers over blocks so normalised;                     *)
(*   - analyzeChapterForLessons;                                           *)
(*   - getAi, the guard every exported function starts with;               *)
(* and of the handlers that call them (src/App.tsx and                     *)
(* src/components/QuestionGeneratorSidebar.tsx):                           *)
(*   - submitting answers and applying AI corrections;                     *)
(*   - the Test Me sidebar and its question request;                       *)
(*   - handleFileSelect and handleBackToUpload;                            *)
(*   - the session content under question and explanation requests;        *)
(*   - handleAnalyzeSubstructure over the chapters of the book.            *)
(* Each has its own specification (SpecRetry, SpecParse, SpecAnalyze,      *)
(* SpecQuestions, SpecFeedback, SpecLessons, SpecEntry, SpecGrade,         *)
(* SpecSidebar, SpecUpload, SpecContent, SpecChapters); each leaves the    *)
(* variables of the others at rest.                                        *)
(***************************************************************************)
EXTENDS Integers, Sequences, FiniteSets, TLC

VARIABLES
    \* callApiWithRetry
    maxRetries,   \* the maxRetries argument
    attempt,      \* the local counter `attempt`
    rpc,          \* position: "loop" | "backoff" | "returned" | "thrown"
    outcomes,     \* what each invocation of apiCall did, in order
    delays,       \* the setTimeout delays waited, in order
    retResult,    \* the value returned or the error thrown
    \* parseJsonResponse
    text,         \* the argument
    origin,       \* how the argument was produced
    value,        \* the value the argument was encoded from, if any
    parsed,       \* the result
    ppc,          \* "input" | "done"
    \* analyzeDocumentStructure
    totalPages,   \* pages.length
    aAttempt,     \* callApiWithRetry's counter for this call
    apc,          \* position: "loop" | "backoff" | "done"
    response,     \* what parseJsonResponse gave for the last response
    aError,       \* the error callApiWithRetry threw, if it threw
    chapters,     \* the list returned
    \* generateInitialQuestions
    qAttempt,     \* the loop variable `attempt`
    qpc,          \* position: "call" | "wait" | "done"
    qOutcomes,    \* what each attempt met, in order
    qDelays,      \* the setTimeout delays waited, in order
    qResponse,    \* what parseJsonResponse gave for the response returned from
    qResult,      \* the value returned
    \* getFeedbackOnAnswers
    allQuestions, \* the allQuestions argument
    userAnswers,  \* the userAnswers argument
    fpc,          \* position: "prepare" | "loop" | "backoff" | "done" | "thrown"
    fPairs,       \* qaPairsForAI
    fAttempt,     \* callApiWithRetry's counter for this call
    fResult,      \* the value returned or the error thrown
    \* analyzeChapterForLessons
    lpc,          \* position: "loop" | "backoff" | "done"
    lAttempt,     \* callApiWithRetry's counter for this call
    lResponse,    \* what parseJsonResponse gave for the last response
    lError,       \* the error callApiWithRetry threw, if it threw
    lResult,      \* the value returned
    \* the module state and one call of an exported function
    ai,           \* the module variable `ai`
    aiInitializationError,  \* the module variable of that name
    entry,        \* the function called
    emptyInput,   \* whether its argument is empty (text or list)
    epc,          \* position: "call" | "requesting" | "done" | "thrown"
    contacted,    \* whether generateContent was called
    eResult,      \* the value returned or the error thrown
    \* submitting answers and applying corrections, in the session or sidebar
    surface,      \* which component: "session" | "sidebar"
    gQuestions,   \* the question blocks on display
    gAnswers,     \* the answers the user gave
    gpc,          \* position: "questions" | "judging" | "results" | "correcting" | "corrected"
    feedback,     \* the state `feedback`
    isSubmitting, \* the state `isSubmitting`
    isCorrecting, \* the state `isCorrecting`
    gBefore,      \* the feedback list the corrections handler closed over
    corrections,  \* what getAiCorrections returned
    gSent,        \* the question/answer pairs put in the judging request
    gJudged,      \* the items of the judging response
    \* the Test Me sidebar (QuestionGeneratorSidebar) and one handleGenerate request
    isOpen,       \* the prop `isOpen`
    currentStep,  \* the state `currentStep`
    isLoading,    \* the state `isLoading`
    questionsToDisplay,\* the states `questionsToDisplay` and `allQuestionsForChapter`
    sError,       \* whether the state `error` holds a message
    spc,          \* the request: "idle" | "pending" | "settled"
    resetTimer,   \* whether the setTimeout of the closing effect is pending
    sAbandoned,   \* whether the request was pending when the sidebar closed or reset
    sBefore,      \* currentStep and the questions just before the request settled
    sLast,        \* the last thing that happened
    \* App.tsx: handleFileSelect invocations and handleBackToUpload
    appState,     \* the state `appState`
    isSavingRef,  \* isSavingRef.current
    activeBook,   \* the state `activeBook`: null or the book of an invocation
    upc,          \* the position of each handleFileSelect invocation
    uAbandoned,   \* whether the user went back to upload while the invocation was pending
    uBefore,      \* appState and activeBook just before an invocation ended
    uLast,        \* the last thing that happened
    \* App.tsx: the session content, one question request and one deeper-explanation request
    interactiveContent,      \* interactiveContent.content
    isGeneratingMore,\* the state `isGeneratingMore`
    kpc,          \* the question request: "idle" | "pending" | "done" | "thrown"
    appended,     \* the question blocks appended to the content, in order
    dpc,          \* the explanation request: "idle" | "pending" | "done" | "thrown"
    dContent,     \* interactiveContent.content as the closure of the explanation handler holds it
    dText,        \* the text argument of handleGetDeeperExplanation
    dBlock,       \* the block spliced in, if one was
    \* App.tsx: the chapters on display, the saved book and the handleAnalyzeSubstructure invocations
    appChapters,  \* the state `chapters`
    bookChapters, \* the chapters of the state `activeBook`
    savedChapters,\* the chapters of the book last given to saveBook
    cpc,          \* the position of the analysis of each chapter
    cCopy,        \* the local chaptersCopy of each analysis
    cLessons      \* what analyzeChapterForLessons returned for each chapter

retryVars    == <<maxRetries, attempt, rpc, outcomes, delays, retResult>>
parseVars    == <<text, origin, value, parsed, ppc>>
analyzeVars  == <<totalPages, aAttempt, apc, response, aError, chapters>>
questionVars == <<qAttempt, qpc, qOutcomes, qDelays, qResponse, qResult>>
feedbackVars == <<allQuestions, userAnswers, fpc, fPairs, fAttempt, fResult>>
lessonVars   == <<lpc, lAttempt, lResponse, lError, lResult>>
entryVars    == <<ai, aiInitializationError, entry, emptyInput, epc, contacted,
                  eResult>>
gradeVars    == <<surface, gQuestions, gAnswers, gpc, feedback, isSubmitting,
                  isCorrecting, gBefore, corrections, gSent, gJudged>>
serviceVars  == <<retryVars, parseVars, analyzeVars, questionVars, feedbackVars,
                  lessonVars, entryVars>>
sidebarVars  == <<isOpen, currentStep, isLoading, questionsToDisplay, 
                  sError, spc, resetTimer, sAbandoned, sBefore, sLast>>
uploadVars   == <<appState, isSavingRef, activeBook, upc, uAbandoned, 
                  uBefore, uLast>>
contentVars  == <<interactiveContent, isGeneratingMore, kpc, appended, dpc, 
                  dContent, dText, dBlock>>
chaptersVars == <<appChapters, bookChapters, savedChapters, cpc, 
                  cCopy, cLessons>>
uiVars       == <<gradeVars, sidebarVars, uploadVars, contentVars, chaptersVars>>
vars         == <<serviceVars, uiVars>>

\* What an action of one function leaves alone.
exceptRetry    == <<parseVars, analyzeVars, questionVars, feedbackVars, lessonVars,
                   entryVars, uiVars>>
exceptParse    == <<retryVars, analyzeVars, questionVars, feedbackVars, lessonVars,
                   entryVars, uiVars>>
exceptAnalyze  == <<parseVars, retryVars, questionVars, feedbackVars, lessonVars,
                   entryVars, uiVars>>
exceptQuestion == <<retryVars, parseVars, analyzeVars, feedbackVars, lessonVars,
                   entryVars, uiVars>>
exceptFeedback == <<retryVars, parseVars, analyzeVars, questionVars, lessonVars,
                   entryVars, uiVars>>
exceptLesson   == <<retryVars, parseVars, analyzeVars, questionVars, feedbackVars,
                   entryVars, uiVars>>
exceptEntry    == <<retryVars, parseVars, analyzeVars, questionVars, feedbackVars,
                   lessonVars, uiVars>>
exceptGrade    == <<serviceVars, sidebarVars, uploadVars, contentVars, chaptersVars>>
exceptSidebar  == <<serviceVars, gradeVars, uploadVars, contentVars, chaptersVars>>
exceptUpload   == <<serviceVars, gradeVars, sidebarVars, contentVars, chaptersVars>>
exceptContent  == <<serviceVars, gradeVars, sidebarVars, uploadVars, chaptersVars>>
exceptChapters == <<serviceVars, gradeVars, sidebarVars, uploadVars, contentVars>>

None == [k |-> "none"]

-----------------------------------------------------------------------------
(* Bounds                                                                  *)

MaxPages    == 2    \* documents of 0..MaxPages pages
MaxChapters == 3    \* raw chapter lists of 0..MaxChapters entries
MaxRetriesArg == 4  \* maxRetries arguments 0..MaxRetriesArg
MaxTextLen  == 4    \* arbitrary response texts of 0..MaxTextLen characters
MaxStrLen   == 2    \* strings of 0..MaxStrLen characters inside encoded values
MaxWidth    == 2    \* encoded arrays of 0..MaxWidth elements
MaxBlocks   == 2    \* raw block lists of 0..MaxBlocks entries
MaxIds      == 2    \* generateUniqueId gives one of MaxIds values
MaxLessons  == 2    \* raw lesson lists of 0..MaxLessons entries
MaxGraded   == 2    \* 1..MaxGraded questions answered and judged
MaxParts    == 2    \* questionParts and correctAnswers of 0..MaxParts entries
MaxSelections == 2  \* handleFileSelect invocations that may overlap
MaxAnalysed == 2    \* chapters whose analyses may overlap

-----------------------------------------------------------------------------
(* Errors and the retry decision of callApiWithRetry                       *)

DefaultMaxRetries == 3

\* An error is its message, a sequence of words; <<>> is an error with no
\* (or an empty) message.
ServerErrorSignature == "500 INTERNAL"

Errors == { <<>>,
            <<"500 INTERNAL">>,
            <<"got", "500 INTERNAL", "from", "model">>,
            <<"503 UNAVAILABLE">>,
            <<"400 INVALID_ARGUMENT">> }

\* error.message && error.message.includes('500 INTERNAL')
IsServerError(error) ==
    /\ error # <<>>
    /\ \E i \in 1..Len(error) : error[i] = ServerErrorSignature

\* (mutant) a server error is retried even when no attempt is left
ShouldRetry_NoCeiling(att, error, max) == IsServerError(error)

\* (mutant) every error is retried while attempts are left
ShouldRetry_AnyError(att, error, max) == att < max

\* The catch block, after attempt++: isServerError && attempt < maxRetries;
\* TRUE to wait and retry, FALSE to rethrow.
ShouldRetry(att, error, max) == IsServerError(error) /\ att < max

\* setTimeout(res, 1000 * attempt)
BackoffDelay(att) == 1000 * att

ExhaustedError == <<"API call failed after maximum retries.">>

-----------------------------------------------------------------------------
(* analyzeDocumentStructure: the page-range reconciliation                 *)

\* Page numbers a raw chapter may carry: from a non-positive one to one
\* beyond any document modelled.
PageDomain == 0..(MaxPages + 1)

\* The arrays the response may decode to: entry i has the title "i" and
\* any two page numbers.
RawList(pages) ==
    [i \in 1..Len(pages) |->
        [title |-> ToString(i), startPage |-> pages[i][1], endPage |-> pages[i][2]]]

\* What parseJsonResponse gives for the response text when it is no array of
\* chapters: a decoded value with no usable length, or null.
ArrayResponse(list) == [kind |-> "array", list |-> list]

OtherResponses == { [kind |-> "object", list |-> <<>>],
                    [kind |-> "null", list |-> <<>>] }

\* An array one of whose elements is null: apiCall reads endPage of every
\* element (lines 250 and 254), and reading a property of null throws.
NullItemResponse == [kind |-> "nullitem", list |-> <<>>]

TypeError == <<"TypeError: Cannot read properties of null">>

\* (mutant) an overlapping chapter is cut back to the next startPage itself
ClampOverlaps_ToNextStart(raw) ==
    [i \in 1..Len(raw) |->
        IF i < Len(raw) /\ raw[i].endPage >= raw[i+1].startPage
        THEN [raw[i] EXCEPT !.endPage = raw[i+1].startPage]
        ELSE raw[i]]

\* for (i = 0; i < length - 1; i++)
\*     if (raw[i].endPage >= raw[i+1].startPage) raw[i].endPage = raw[i+1].startPage - 1
ClampOverlaps(raw) ==
    [i \in 1..Len(raw) |->
        IF i < Len(raw) /\ raw[i].endPage >= raw[i+1].startPage
        THEN [raw[i] EXCEPT !.endPage = raw[i+1].startPage - 1]
        ELSE raw[i]]

\* raw[length - 1].endPage = totalPages
ForceLastEnd(raw, total) ==
    [raw EXCEPT ![Len(raw)] = [raw[Len(raw)] EXCEPT !.endPage = total]]

\* c.startPage <= totalPages && c.startPage > 0 && c.endPage >= c.startPage
KeepChapter(c, total) ==
    c.startPage <= total /\ c.startPage > 0 /\ c.endPage >= c.startPage

FilterChapters(list, total) ==
    LET Keep(c) == KeepChapter(c, total) IN SelectSeq(list, Keep)

FullDocument(total) ==
    << [title |-> "Full Document", startPage |-> 1, endPage |-> total] >>

\* The body of apiCall after the response arrived.
ApiCallResult(resp, total) ==
    IF resp.kind = "array" /\ Len(resp.list) > 0
    THEN FilterChapters(ForceLastEnd(ClampOverlaps(resp.list), total), total)
    ELSE FullDocument(total)

\* apiCall as callApiWithRetry sees it: a value returned or an error thrown.
ApiCall(resp, total) ==
    IF resp.kind = "nullitem"
    THEN [k |-> "error", v |-> TypeError]
    ELSE [k |-> "value", v |-> ApiCallResult(resp, total)]

\* (mutant) the error of the wrapper leaves analyzeDocumentStructure
AnalyzeCatch_Rethrow(error, total) == [pc |-> "thrown", list |-> <<>>]

\* catch(error) { return [{ title: `Full Document`, startPage: 1, endPage: totalPages }] }
AnalyzeCatch(error, total) == [pc |-> "done", list |-> FullDocument(total)]

-----------------------------------------------------------------------------
(* Text: a sequence of characters, each a one-character string              *)

Quote     == "\""
Newline   == "\n"
\* The backquote character (a TLA+ string cannot hold one).
Backquote == "'"

Fence == <<Backquote, Backquote, Backquote>>

\* response.text when the response carries no text
Undefined == <<"undefined">>

Digits  == {"1"}
Letters == {"a", "b"}

\* \s and \w of the regular expressions
IsSpace(c) == c \in {" ", Newline}

IsWord(c) == c \in Digits \cup Letters

SetMin(S) == CHOOSE x \in S : \A y \in S : x <= y

SetMax(S) == CHOOSE x \in S : \A y \in S : x >= y

\* String.prototype.trim
Trim(str) ==
    LET solid == { i \in 1..Len(str) : ~IsSpace(str[i]) }
    IN  IF solid = {} THEN <<>> ELSE SubSeq(str, SetMin(solid), SetMax(solid))

\* String.prototype.indexOf / lastIndexOf for one character: 0-based, or -1
IndexOf(str, c) ==
    LET at == { i \in 1..Len(str) : str[i] = c }
    IN  IF at = {} THEN -1 ELSE SetMin(at) - 1

LastIndexOf(str, c) ==
    LET at == { i \in 1..Len(str) : str[i] = c }
    IN  IF at = {} THEN -1 ELSE SetMax(at) - 1

\* String.prototype.substring(a, b): both clamped to 0..length, swapped
\* when a > b.
Substring(str, a, b) ==
    LET Clamp(x) == IF x < 0 THEN 0 ELSE IF x > Len(str) THEN Len(str) ELSE x
        lo == IF Clamp(a) <= Clamp(b) THEN Clamp(a) ELSE Clamp(b)
        hi == IF Clamp(a) <= Clamp(b) THEN Clamp(b) ELSE Clamp(a)
    IN  SubSeq(str, lo + 1, hi)

\* The first index >= i of a character that is no white space, Len + 1 if none.
SkipSpace(str, i) ==
    LET solid == { j \in i..Len(str) : ~IsSpace(str[j]) }
    IN  IF solid = {} THEN Len(str) + 1 ELSE SetMin(solid)

\* The first index >= i of a character that is no word character.
SkipWord(str, i) ==
    LET other == { j \in i..Len(str) : ~IsWord(str[j]) }
    IN  IF other = {} THEN Len(str) + 1 ELSE SetMin(other)

\* jsonStr.match(/^```(\w*)?\s*\n?(.*?)\n?\s*```$/s): whether it matches, and
\* group 2.  The text must open and close with a fence that do not share a
\* character.  \w* and \s* are greedy and take the longest runs after the
\* opening fence (neither can reach into the closing fence); the lazy group 2
\* then takes the fewest characters that leave only white space before the
\* closing fence.
FenceMatch(str) ==
    LET n == Len(str)
        matched == /\ n >= 2 * Len(Fence)
                   /\ SubSeq(str, 1, 3) = Fence
                   /\ SubSeq(str, n - 2, n) = Fence
        from == SkipSpace(str, SkipWord(str, 4))
        solid == { j \in from..(n - 3) : ~IsSpace(str[j]) }
        to == IF solid = {} THEN from - 1 ELSE SetMax(solid)
    IN  [matched |-> matched,
         group2  |-> IF matched THEN SubSeq(str, from, to) ELSE <<>>]

\* let start: the first '[' or '{', -1 if neither occurs
StartIndex(str) ==
    LET firstBracket == IndexOf(str, "[")
        firstBrace   == IndexOf(str, "{")
    IN  IF firstBracket = -1 THEN firstBrace
        ELSE IF firstBrace = -1 THEN firstBracket
        ELSE IF firstBracket < firstBrace THEN firstBracket ELSE firstBrace

\* const end = Math.max(lastBracket, lastBrace)
EndIndex(str) ==
    LET lastBracket == LastIndexOf(str, "]")
        lastBrace   == LastIndexOf(str, "}")
    IN  IF lastBracket > lastBrace THEN lastBracket ELSE lastBrace

\* jsonStr.replace(/,\s*([}\]])/g, '$1'): scanning from the left, a comma
\* followed by white space and a closing brace or bracket is replaced,
\* white space included, by the closing character.
RECURSIVE ReplaceFrom(_, _)
ReplaceFrom(str, i) ==
    IF i > Len(str) THEN <<>>
    ELSE LET j == SkipSpace(str, i + 1)
         IN  IF str[i] = "," /\ j <= Len(str) /\ str[j] \in {"}", "]"}
             THEN <<str[j]>> \o ReplaceFrom(str, j + 1)
             ELSE <<str[i]>> \o ReplaceFrom(str, i + 1)

RemoveTrailingCommas(str) == ReplaceFrom(str, 1)

-----------------------------------------------------------------------------
(* JSON values, JSON.parse and JSON.stringify                               *)

Num(n)     == [k |-> "num", n |-> n]
Str(chars) == [k |-> "str", s |-> chars]
Arr(items) == [k |-> "arr", items |-> items]
Obj(m)     == [k |-> "obj", m |-> m]       \* m: a function from keys to values

Null  == [k |-> "null"]
Threw == [k |-> "threw"]

NoMembers == [key \in {} |-> Null]

\* obj[key] = val
SetMember(m, key, val) ==
    [x \in DOMAIN m \cup {key} |-> IF x = key THEN val ELSE m[x]]

Failed == [ok |-> FALSE, val |-> Null, pos |-> 0]

Parsed(val, pos) == [ok |-> TRUE, val |-> val, pos |-> pos]

RECURSIVE DecimalValue(_)
DecimalValue(ds) ==
    IF ds = <<>> THEN 0
    ELSE 10 * DecimalValue(SubSeq(ds, 1, Len(ds) - 1)) + 1

\* A number at i: a run of digits (the only digit modelled is 1, so no
\* leading zero, sign, fraction or exponent can occur).
ParseNumber(str, i) ==
    LET other == { j \in i..Len(str) : str[j] \notin Digits }
        stop == IF other = {} THEN Len(str) + 1 ELSE SetMin(other)
    IN  Parsed(Num(DecimalValue(SubSeq(str, i, stop - 1))), stop)

\* A string at i (str[i] is the opening quote): up to the next quote; a raw
\* line break inside is a syntax error.  No backslash is modelled.
ParseString(str, i) ==
    LET closing == { j \in (i + 1)..Len(str) : str[j] = Quote }
    IN  IF closing = {} THEN Failed
        ELSE LET j == SetMin(closing)
                 chars == SubSeq(str, i + 1, j - 1)
             IN  IF \E x \in 1..Len(chars) : chars[x] = Newline
                 THEN Failed
                 ELSE Parsed(Str(chars), j + 1)

RECURSIVE ParseValue(_, _), ParseElements(_, _, _), ParseMembers(_, _, _)

\* A value at or after i, white space skipped.
ParseValue(str, i) ==
    LET j == SkipSpace(str, i)
    IN  IF j > Len(str) THEN Failed
        ELSE IF str[j] \in Digits THEN ParseNumber(str, j)
        ELSE IF str[j] = Quote THEN ParseString(str, j)
        ELSE IF str[j] = "["
             THEN LET a == SkipSpace(str, j + 1)
                  IN  IF a <= Len(str) /\ str[a] = "]"
                      THEN Parsed(Arr(<<>>), a + 1)
                      ELSE ParseElements(str, j + 1, <<>>)
        ELSE IF str[j] = "{"
             THEN LET a == SkipSpace(str, j + 1)
                  IN  IF a <= Len(str) /\ str[a] = "}"
                      THEN Parsed(Obj(NoMembers), a + 1)
                      ELSE ParseMembers(str, j + 1, NoMembers)
        ELSE Failed

\* The elements of an array from i on, `items` being those read so far.
ParseElements(str, i, items) ==
    LET r == ParseValue(str, i)
    IN  IF ~r.ok THEN Failed
        ELSE LET j == SkipSpace(str, r.pos)
             IN  IF j > Len(str) THEN Failed
                 ELSE IF str[j] = "," THEN ParseElements(str, j + 1, Append(items, r.val))
                 ELSE IF str[j] = "]" THEN Parsed(Arr(Append(items, r.val)), j + 1)
                 ELSE Failed

\* The members of an object from i on; a repeated key keeps the last value.
ParseMembers(str, i, m) ==
    LET a == SkipSpace(str, i)
    IN  IF a > Len(str) \/ str[a] # Quote THEN Failed
        ELSE LET key == ParseString(str, a)
             IN  IF ~key.ok THEN Failed
                 ELSE LET c == SkipSpace(str, key.pos)
                      IN  IF c > Len(str) \/ str[c] # ":" THEN Failed
                          ELSE LET r == ParseValue(str, c + 1)
                               IN  IF ~r.ok THEN Failed
                                   ELSE LET j == SkipSpace(str, r.pos)
                                            mm == SetMember(m, key.val.s, r.val)
                                        IN  IF j > Len(str) THEN Failed
                                            ELSE IF str[j] = "," THEN ParseMembers(str, j + 1, mm)
                                            ELSE IF str[j] = "}" THEN Parsed(Obj(mm), j + 1)
                                            ELSE Failed

\* JSON.parse: one value, then nothing but white space; ok = FALSE stands
\* for the SyntaxError thrown.
JSONParse(str) ==
    LET r == ParseValue(str, 1)
    IN  IF r.ok /\ SkipSpace(str, r.pos) > Len(str) THEN r ELSE Failed

-----------------------------------------------------------------------------
(* parseJsonResponse                                                        *)

\* !text || typeof text.trim !== 'function'
IsInvalidInput(t) == t = Undefined \/ t = <<>>

\* (mutant) the SyntaxError of JSON.parse is not caught
DecodeOrNull_NoCatch(str) ==
    LET r == JSONParse(RemoveTrailingCommas(str))
    IN  IF r.ok THEN r.val ELSE Threw

\* try { return JSON.parse(cleaned) } catch (e) { return null }
DecodeOrNull(str) ==
    LET r == JSONParse(RemoveTrailingCommas(str))
    IN  IF r.ok THEN r.val ELSE Null

\* The text the structure is looked for in: the trimmed text, or the trimmed
\* inside of the fence when the whole text is one fenced block.
Unfenced(t) ==
    LET jsonStr == Trim(t)
        fenceMatch == FenceMatch(jsonStr)
    IN  IF fenceMatch.matched /\ fenceMatch.group2 # <<>>
        THEN Trim(fenceMatch.group2)
        ELSE jsonStr

ParseJsonResponse(t) ==
    IF IsInvalidInput(t) THEN Null
    ELSE LET jsonStr == Unfenced(t)
             start == StartIndex(jsonStr)
             end == EndIndex(jsonStr)
         IN  IF start = -1 THEN Null
             ELSE IF end = -1 THEN Null
             ELSE DecodeOrNull(Substring(jsonStr, start, end + 1))

-----------------------------------------------------------------------------
(* callApiWithRetry as a state machine                                     *)

\* What an invocation of apiCall may resolve to.
ReturnValues == { <<"v1">>, <<"v2">> }

\* while (attempt < maxRetries)
LoopGuard(att, max) == att < max

RetryInit ==
    /\ maxRetries \in 0..MaxRetriesArg
    /\ attempt = 0
    /\ rpc = "loop"
    /\ outcomes = <<>>
    /\ delays = <<>>
    /\ retResult = None

RetryAtRest ==
    /\ maxRetries = 0
    /\ attempt = 0
    /\ rpc = "off"
    /\ outcomes = <<>>
    /\ delays = <<>>
    /\ retResult = None

\* (mutant) the result is awaited but not returned: the loop goes on
RetryInvokeOk_NoReturn ==
    /\ rpc = "loop"
    /\ LoopGuard(attempt, maxRetries)
    /\ \E v \in ReturnValues :
          /\ outcomes' = Append(outcomes, [k |-> "value", v |-> v])
          /\ retResult' = [k |-> "value", v |-> v]
    /\ rpc' = "loop"
    /\ UNCHANGED <<maxRetries, attempt, delays>>
    /\ UNCHANGED exceptRetry

\* return await apiCall();  -- the call resolves
RetryInvokeOk ==
    /\ rpc = "loop"
    /\ LoopGuard(attempt, maxRetries)
    /\ \E v \in ReturnValues :
          /\ outcomes' = Append(outcomes, [k |-> "value", v |-> v])
          /\ retResult' = [k |-> "value", v |-> v]
    /\ rpc' = "returned"
    /\ UNCHANGED <<maxRetries, attempt, delays>>
    /\ UNCHANGED exceptRetry

\* return await apiCall();  -- the call rejects: the catch block
RetryInvokeFail ==
    /\ rpc = "loop"
    /\ LoopGuard(attempt, maxRetries)
    /\ \E e \in Errors :
          /\ outcomes' = Append(outcomes, [k |-> "error", v |-> e])
          /\ attempt' = attempt + 1
          /\ IF ShouldRetry(attempt + 1, e, maxRetries)
             THEN /\ rpc' = "backoff"
                  /\ delays' = Append(delays, BackoffDelay(attempt + 1))
                  /\ UNCHANGED retResult
             ELSE /\ rpc' = "thrown"
                  /\ retResult' = [k |-> "error", v |-> e]
                  /\ UNCHANGED delays
    /\ UNCHANGED maxRetries
    /\ UNCHANGED exceptRetry

\* the setTimeout promise resolves
RetryWake ==
    /\ rpc = "backoff"
    /\ rpc' = "loop"
    /\ UNCHANGED <<maxRetries, attempt, outcomes, delays, retResult>>
    /\ UNCHANGED exceptRetry

\* throw new Error("API call failed after maximum retries.")
RetryExhausted ==
    /\ rpc = "loop"
    /\ ~LoopGuard(attempt, maxRetries)
    /\ rpc' = "thrown"
    /\ retResult' = [k |-> "error", v |-> ExhaustedError]
    /\ UNCHANGED <<maxRetries, attempt, outcomes, delays>>
    /\ UNCHANGED exceptRetry

RetryNext ==
    \/ RetryInvokeOk
    \/ RetryInvokeFail
    \/ RetryWake
    \/ RetryExhausted

-----------------------------------------------------------------------------
(* analyzeDocumentStructure as a state machine                             *)

AnalyzeInit ==
    /\ totalPages \in 0..MaxPages
    /\ aAttempt = 0
    /\ apc = "loop"
    /\ response = None
    /\ aError = None
    /\ chapters = <<>>

AnalyzeAtRest ==
    /\ totalPages = 0
    /\ aAttempt = 0
    /\ apc = "off"
    /\ response = None
    /\ aError = None
    /\ chapters = <<>>

\* apiCall threw error e: callApiWithRetry's catch block, and when it
\* rethrows, the catch block of analyzeDocumentStructure.
AnalyzeThrow(e) ==
    IF ShouldRetry(aAttempt + 1, e, DefaultMaxRetries)
    THEN /\ apc' = "backoff"
         /\ aAttempt' = aAttempt + 1
         /\ UNCHANGED <<aError, chapters>>
    ELSE /\ apc' = AnalyzeCatch(e, totalPages).pc
         /\ aAttempt' = 0
         /\ aError' = [k |-> "error", v |-> e]
         /\ chapters' = AnalyzeCatch(e, totalPages).list

\* generateContent resolves with a response that decodes to resp; apiCall
\* reconciles it; callApiWithRetry and analyzeDocumentStructure return that,
\* unless apiCall threw.
AnalyzeReturn(resp) ==
    /\ response' = resp
    /\ IF ApiCall(resp, totalPages).k = "value"
       THEN /\ chapters' = ApiCall(resp, totalPages).v
            /\ apc' = "done"
            /\ aAttempt' = 0
            /\ UNCHANGED aError
       ELSE AnalyzeThrow(ApiCall(resp, totalPages).v)
    /\ UNCHANGED totalPages
    /\ UNCHANGED exceptAnalyze

AnalyzeRespond ==
    /\ apc = "loop"
    /\ LoopGuard(aAttempt, DefaultMaxRetries)
    /\ \/ \E n \in 0..MaxChapters :
             \E pages \in [1..n -> PageDomain \X PageDomain] :
                 AnalyzeReturn(ArrayResponse(RawList(pages)))
       \/ \E resp \in OtherResponses \cup {NullItemResponse} : AnalyzeReturn(resp)

\* generateContent rejects.
AnalyzeFail ==
    /\ apc = "loop"
    /\ LoopGuard(aAttempt, DefaultMaxRetries)
    /\ \E e \in Errors : AnalyzeThrow(e)
    /\ UNCHANGED <<totalPages, response>>
    /\ UNCHANGED exceptAnalyze

AnalyzeWake ==
    /\ apc = "backoff"
    /\ apc' = "loop"
    /\ UNCHANGED <<totalPages, aAttempt, response, aError, chapters>>
    /\ UNCHANGED exceptAnalyze

AnalyzeNext ==
    \/ AnalyzeRespond
    \/ AnalyzeFail
    \/ AnalyzeWake

-----------------------------------------------------------------------------
(* The texts parseJsonResponse is applied to                                *)

\* Every character a response text is built from.
Alphabet == {"[", "]", "{", "}", ",", ":", Quote, "1", "a", " ", Newline, Backquote}

\* The values that are encoded: arrays and objects of numbers and strings,
\* the strings holding letters and JSON punctuation, and one more level.
StrChars == {"a", ",", "]"}

Strings == UNION { [1..n -> StrChars] : n \in 0..MaxStrLen }

Atoms == {Num(1)} \cup { Str(x) : x \in Strings }

KeyOrder == << <<"a">>, <<"b">> >>

Keys == { KeyOrder[i] : i \in 1..Len(KeyOrder) }

Inner == { Arr(<<>>), Arr(<<Num(1)>>), Obj(NoMembers),
           Obj([x \in {<<"a">>} |-> Str(<<",">>)]) }

Nested == { Arr(<<c, Num(1)>>) : c \in Inner }
          \cup { Obj([x \in {<<"b">>} |-> c]) : c \in Inner }

RECURSIVE DecimalDigits(_)
DecimalDigits(n) ==
    IF n < 10 THEN <<ToString(n)>>
    ELSE DecimalDigits(n \div 10) \o <<ToString(n % 10)>>

\* JSON.stringify(v): no white space, members in insertion order; none of
\* the characters modelled needs escaping inside a string.
RECURSIVE Stringify(_), StringifyItems(_, _), StringifyMembers(_, _, _)
Stringify(v) ==
    IF v.k = "num" THEN DecimalDigits(v.n)
    ELSE IF v.k = "str" THEN <<Quote>> \o v.s \o <<Quote>>
    ELSE IF v.k = "arr" THEN <<"[">> \o StringifyItems(v.items, 1) \o <<"]">>
    ELSE <<"{">> \o StringifyMembers(v.m, 1, FALSE) \o <<"}">>

StringifyItems(items, i) ==
    IF i > Len(items) THEN <<>>
    ELSE (IF i > 1 THEN <<",">> ELSE <<>>)
         \o Stringify(items[i]) \o StringifyItems(items, i + 1)

StringifyMembers(m, i, some) ==
    IF i > Len(KeyOrder) THEN <<>>
    ELSE IF KeyOrder[i] \notin DOMAIN m THEN StringifyMembers(m, i + 1, some)
    ELSE (IF some THEN <<",">> ELSE <<>>)
         \o <<Quote>> \o KeyOrder[i] \o <<Quote, ":">> \o Stringify(m[KeyOrder[i]])
         \o StringifyMembers(m, i + 1, TRUE)

\* A fenced code block with a language tag, and prose around it.
Fenced(json) == Fence \o <<"a", "b", Newline>> \o json \o <<Newline>> \o Fence

Proses == { [pre |-> <<"a", " ">>, post |-> <<" ", "a">>],
            [pre |-> <<"a", ":", Newline>>, post |-> <<Newline, "a", "b">>] }

InProse(p, json) == p.pre \o Fenced(json) \o p.post

\* The encoding with a comma, and white space, put before its last
\* character, the closing brace or bracket.
WithTrailingComma(json, pad) ==
    SubSeq(json, 1, Len(json) - 1) \o <<",">> \o pad \o <<json[Len(json)]>>

\* The argument is the encoding of value v: bare, fenced, fenced inside
\* prose, or with a trailing comma.
EncodedInput(v) ==
    /\ value = v
    /\ \/ origin = "json" /\ text = Stringify(v)
       \/ origin = "fenced" /\ text = Fenced(Stringify(v))
       \/ origin = "prose" /\ \E p \in Proses : text = InProse(p, Stringify(v))
       \/ origin = "trailing"
            /\ \E pad \in {<<>>, <<" ">>} : text = WithTrailingComma(Stringify(v), pad)

\* The argument is any short text or no text at all, or the encoding of an
\* array, an object or a nested value.
ParseInit ==
    /\ \/ /\ \E n \in 0..MaxTextLen : text \in [1..n -> Alphabet]
          /\ origin = "text"
          /\ value = None
       \/ /\ text = Undefined
          /\ origin = "text"
          /\ value = None
       \/ \E n \in 0..MaxWidth : \E l \in [1..n -> Atoms] : EncodedInput(Arr(l))
       \/ \E K \in SUBSET Keys : \E m \in [K -> Atoms] : EncodedInput(Obj(m))
       \/ \E v \in Nested : EncodedInput(v)
    /\ parsed = None
    /\ ppc = "input"

ParseAtRest ==
    /\ text = <<>>
    /\ origin = "off"
    /\ value = None
    /\ parsed = None
    /\ ppc = "off"

Parse ==
    /\ ppc = "input"
    /\ parsed' = ParseJsonResponse(text)
    /\ ppc' = "done"
    /\ UNCHANGED <<text, origin, value>>
    /\ UNCHANGED exceptParse

ParseNext == Parse

-----------------------------------------------------------------------------
(* Interactive blocks and their normalisation                              *)

\* The six variants of a block that the prompts ask for.
KnownTypes == {"explanation", "math_formula", "multiple_choice_question",
               "true_false_question", "fill_in_the_blank_question",
               "open_ended_question"}

\* Type tags the model may answer with besides those.
OtherTypes == {"essay_question", "widget"}

\* The type of a block that has no type property (a null element of the
\* array becomes such a block: {...null, id}).
NoType == "(no type)"

\* The properties the prompts ask for, by type.
Payload(t) ==
    CASE t = "multiple_choice_question" -> {"question", "options", "correctAnswerIndex"}
      [] t = "true_false_question" -> {"question", "correctAnswer"}
      [] t = "fill_in_the_blank_question" -> {"questionParts", "correctAnswers"}
      [] t = "open_ended_question" -> {"question"}
      [] t = "essay_question" -> {"question"}
      [] t = "explanation" -> {"text"}
      [] t = "math_formula" -> {"latex"}
      [] OTHER -> {}

\* The blocks of a decoded array: a type tag (or none) and the names of the
\* properties present; complete ones, and a multiple-choice and a
\* fill-in-the-blank question that lack their list.
RawBlocks ==
    { [type |-> t, fields |-> Payload(t)] : t \in KnownTypes \cup OtherTypes \cup {NoType} }
    \cup { [type |-> "multiple_choice_question",
            fields |-> Payload("multiple_choice_question") \ {"options"}],
           [type |-> "fill_in_the_blank_question",
            fields |-> Payload("fill_in_the_blank_question") \ {"questionParts"}] }

\* The id property of a raw block: absent, or whatever the model wrote.
NoId == "(no id)"

RawId == "raw-id"

RawBlockList(bs, rawId) ==
    [i \in 1..Len(bs) |->
        [type |-> bs[i].type, fields |-> bs[i].fields, id |-> rawId]]

\* `${Date.now()}-${Math.random().toString(36).substring(2, 9)}`: the clock
\* and the random source decide the value.
GeneratedIds == { ToString(i) : i \in 1..MaxIds }

\* content.map(block => ({...block, id: generateUniqueId()})); ids[i] is
\* what the i-th call of generateUniqueId returned.
AssignIdsToBlocks(content, ids) ==
    [i \in 1..Len(content) |-> [content[i] EXCEPT !.id = ids[i]]]

Blocks(list) == [k |-> "blocks", list |-> list]

-----------------------------------------------------------------------------
(* generateInitialQuestions as a state machine                             *)

\* for (let attempt = 0; attempt < 3; attempt++)
QuestionAttempts == 3

\* (mutant) the loop waits after every attempt
QuestionShouldWait_Always(att) == TRUE

\* if (attempt < 2)
QuestionShouldWait(att) == att < 2

\* setTimeout(res, 500 * (attempt + 1))
QuestionDelay(att) == 500 * (att + 1)

\* The errors generateContent rejects with: one with the transient-fault
\* signature, one without.
QuestionErrors == { <<"500 INTERNAL">>, <<"400 INVALID_ARGUMENT">> }

\* assignIdsToBlocks applied to a decoded object: content.map is undefined.
NotAFunction == <<"TypeError: content.map is not a function">>

QuestionsInit ==
    /\ qAttempt = 0
    /\ qpc = "call"
    /\ qOutcomes = <<>>
    /\ qDelays = <<>>
    /\ qResponse = None
    /\ qResult = None

QuestionsAtRest ==
    /\ qAttempt = 0
    /\ qpc = "off"
    /\ qOutcomes = <<>>
    /\ qDelays = <<>>
    /\ qResponse = None
    /\ qResult = None

\* The rest of an iteration that did not return: the warning or the catch
\* block, then the wait if there is one, else attempt++.
QuestionsNextAttempt(outcome) ==
    /\ qOutcomes' = Append(qOutcomes, outcome)
    /\ IF QuestionShouldWait(qAttempt)
       THEN /\ qpc' = "wait"
            /\ qDelays' = Append(qDelays, QuestionDelay(qAttempt))
            /\ UNCHANGED qAttempt
       ELSE /\ qpc' = "call"
            /\ qAttempt' = qAttempt + 1
            /\ UNCHANGED qDelays
    /\ UNCHANGED <<qResponse, qResult>>

\* return assignIdsToBlocks(rawBlocks)
QuestionsReturn(raw, ids) ==
    /\ qOutcomes' = Append(qOutcomes, [k |-> "array", v |-> <<>>])
    /\ qResponse' = ArrayResponse(raw)
    /\ qResult' = Blocks(AssignIdsToBlocks(raw, ids))
    /\ qpc' = "done"
    /\ UNCHANGED <<qAttempt, qDelays>>

\* generateContent resolves: the response decodes to an array, which is
\* returned with new ids; or to nothing (null); or to an object, on which
\* assignIdsToBlocks throws into the catch block.
QuestionsRespond ==
    /\ qpc = "call"
    /\ qAttempt < QuestionAttempts
    /\ \/ \E n \in 0..MaxBlocks :
             \E bs \in [1..n -> RawBlocks] :
                 \E rawId \in {NoId, RawId} :
                     \E ids \in [1..n -> GeneratedIds] :
                         QuestionsReturn(RawBlockList(bs, rawId), ids)
       \/ QuestionsNextAttempt([k |-> "null", v |-> <<>>])
       \/ QuestionsNextAttempt([k |-> "object", v |-> NotAFunction])
    /\ UNCHANGED exceptQuestion

\* generateContent rejects: the catch block.
QuestionsFail ==
    /\ qpc = "call"
    /\ qAttempt < QuestionAttempts
    /\ \E e \in QuestionErrors : QuestionsNextAttempt([k |-> "error", v |-> e])
    /\ UNCHANGED exceptQuestion

\* The timer fires: attempt++.
QuestionsWake ==
    /\ qpc = "wait"
    /\ qpc' = "call"
    /\ qAttempt' = qAttempt + 1
    /\ UNCHANGED <<qOutcomes, qDelays, qResponse, qResult>>
    /\ UNCHANGED exceptQuestion

\* The loop condition fails: return null.
QuestionsGiveUp ==
    /\ qpc = "call"
    /\ ~(qAttempt < QuestionAttempts)
    /\ qpc' = "done"
    /\ qResult' = Null
    /\ UNCHANGED <<qAttempt, qOutcomes, qDelays, qResponse>>
    /\ UNCHANGED exceptQuestion

QuestionsNext ==
    \/ QuestionsRespond
    \/ QuestionsFail
    \/ QuestionsWake
    \/ QuestionsGiveUp

-----------------------------------------------------------------------------
(* getFeedbackOnAnswers as a state machine                                 *)

\* questionBlock.type.endsWith('_question'), over the type tags modelled
EndsWithQuestion(t) ==
    t \in {"multiple_choice_question", "true_false_question",
           "fill_in_the_blank_question", "open_ended_question",
           "essay_question"}

\* allQuestions.find(q => q.id === id): the index of the first block with
\* that id, 0 when there is none.
FindIndex(blocks, id) ==
    LET at == { i \in 1..Len(blocks) : blocks[i].id = id }
    IN  IF at = {} THEN 0 ELSE SetMin(at)

\* The callback of userAnswers.map for one answer whose block was found:
\* "throw" when it reads a property of undefined, "skip" when it returns
\* null, "pair" when it returns a question/answer pair.  The answer itself
\* only decides the text put in the pair.
PairOutcome(b) ==
    IF b.type = NoType THEN "throw"
    ELSE IF ~EndsWithQuestion(b.type) THEN "skip"
    ELSE CASE b.type = "multiple_choice_question" ->
                  IF "options" \notin b.fields THEN "throw"
                  ELSE IF "question" \in b.fields THEN "pair" ELSE "skip"
           [] b.type = "fill_in_the_blank_question" ->
                  IF {"questionParts", "correctAnswers"} \subseteq b.fields
                  THEN "pair" ELSE "throw"
           [] b.type \in {"true_false_question", "open_ended_question"} ->
                  IF "question" \in b.fields THEN "pair" ELSE "skip"
           [] OTHER -> "skip"

AnswerOutcome(blocks, ua) ==
    IF FindIndex(blocks, ua.questionId) = 0 THEN "skip"
    ELSE PairOutcome(blocks[FindIndex(blocks, ua.questionId)])

\* Reading a property of an undefined type, options or questionParts.
UndefinedProperty == <<"TypeError: Cannot read properties of undefined">>

\* userAnswers.map(...).filter(Boolean), or the error the callback threw
QaPairsForAI(answers, blocks) ==
    IF \E i \in 1..Len(answers) : AnswerOutcome(blocks, answers[i]) = "throw"
    THEN [k |-> "error", v |-> UndefinedProperty]
    ELSE LET Paired(ua) == AnswerOutcome(blocks, ua) = "pair"
             kept == SelectSeq(answers, Paired)
         IN  [k |-> "value",
              v |-> [i \in 1..Len(kept) |->
                       [questionId |-> kept[i].questionId,
                        type |-> blocks[FindIndex(blocks, kept[i].questionId)].type]]]

Feedback(list) == [k |-> "feedback", list |-> list]

\* The questionId of an answer to a question that is in no list.
StaleId == "stale"

\* The answers given to the blocks picked, in the order of the blocks.
RECURSIVE AnswersFor(_, _, _)
AnswersFor(blocks, pick, i) ==
    IF i > Len(blocks) THEN <<>>
    ELSE (IF pick[i] THEN << [questionId |-> blocks[i].id] >> ELSE <<>>)
         \o AnswersFor(blocks, pick, i + 1)

\* allQuestions is a list that assignIdsToBlocks produced from a decoded
\* array; userAnswers answers some of its blocks and, maybe, one question
\* that is not in it.
FeedbackInit ==
    /\ \E n \in 0..MaxBlocks :
          \E bs \in [1..n -> RawBlocks] :
              \E ids \in [1..n -> GeneratedIds] :
                  /\ allQuestions = AssignIdsToBlocks(RawBlockList(bs, NoId), ids)
                  /\ \E pick \in [1..n -> BOOLEAN] :
                        \E stale \in {<<>>, << [questionId |-> StaleId] >>} :
                            userAnswers = AnswersFor(allQuestions, pick, 1) \o stale
    /\ fpc = "prepare"
    /\ fPairs = <<>>
    /\ fAttempt = 0
    /\ fResult = None

FeedbackAtRest ==
    /\ allQuestions = <<>>
    /\ userAnswers = <<>>
    /\ fpc = "off"
    /\ fPairs = <<>>
    /\ fAttempt = 0
    /\ fResult = None

\* The code up to the remote call: the pairs are built outside any try
\* block, an empty list of pairs is answered with [].
FeedbackPrepare ==
    /\ fpc = "prepare"
    /\ IF QaPairsForAI(userAnswers, allQuestions).k = "error"
       THEN /\ fpc' = "thrown"
            /\ fResult' = QaPairsForAI(userAnswers, allQuestions)
            /\ UNCHANGED fPairs
       ELSE IF Len(QaPairsForAI(userAnswers, allQuestions).v) = 0
       THEN /\ fpc' = "done"
            /\ fResult' = Feedback(<<>>)
            /\ UNCHANGED fPairs
       ELSE /\ fpc' = "loop"
            /\ fPairs' = QaPairsForAI(userAnswers, allQuestions).v
            /\ UNCHANGED fResult
    /\ UNCHANGED <<allQuestions, userAnswers, fAttempt>>
    /\ UNCHANGED exceptFeedback

\* apiCall threw error e: callApiWithRetry's catch block, and when it
\* rethrows, the catch block of getFeedbackOnAnswers (return null).
FeedbackThrow(e) ==
    IF ShouldRetry(fAttempt + 1, e, DefaultMaxRetries)
    THEN /\ fpc' = "backoff"
         /\ fAttempt' = fAttempt + 1
         /\ UNCHANGED fResult
    ELSE /\ fpc' = "done"
         /\ fAttempt' = 0
         /\ fResult' = Null

\* feedbackFromAI.map(fb => ({...fb, question, userAnswer})): each item
\* with the pair of its questionId, if there is one.
Augment(items, pairs) ==
    [i \in 1..Len(items) |->
        [questionId |-> items[i],
         paired |-> \E j \in 1..Len(pairs) : pairs[j].questionId = items[i]]]

\* generateContent resolves.  The response decodes to nothing (null is
\* returned), to an array of feedback items (here: none, or one for each
\* pair, or one for an unknown question), or to a value on which
\* feedbackFromAI.map throws.
FeedbackRespond ==
    /\ fpc = "loop"
    /\ LoopGuard(fAttempt, DefaultMaxRetries)
    /\ \/ /\ fResult' = Null
          /\ fpc' = "done"
          /\ fAttempt' = 0
       \/ \E items \in { <<>>, [i \in 1..Len(fPairs) |-> fPairs[i].questionId],
                          <<StaleId>> } :
             /\ fResult' = Feedback(Augment(items, fPairs))
             /\ fpc' = "done"
             /\ fAttempt' = 0
       \/ FeedbackThrow(NotAFunction)
    /\ UNCHANGED <<allQuestions, userAnswers, fPairs>>
    /\ UNCHANGED exceptFeedback

\* generateContent rejects.
FeedbackFail ==
    /\ fpc = "loop"
    /\ LoopGuard(fAttempt, DefaultMaxRetries)
    /\ \E e \in Errors : FeedbackThrow(e)
    /\ UNCHANGED <<allQuestions, userAnswers, fPairs>>
    /\ UNCHANGED exceptFeedback

FeedbackWake ==
    /\ fpc = "backoff"
    /\ fpc' = "loop"
    /\ UNCHANGED <<allQuestions, userAnswers, fPairs, fAttempt, fResult>>
    /\ UNCHANGED exceptFeedback

FeedbackNext ==
    \/ FeedbackPrepare
    \/ FeedbackRespond
    \/ FeedbackFail
    \/ FeedbackWake

-----------------------------------------------------------------------------
(* analyzeChapterForLessons as a state machine                             *)

Lessons(list) == [k |-> "lessons", list |-> list]

\* rawLessons.map(l => ({...l, id: generateUniqueId()}))
AssignIdsToLessons(raw, ids) ==
    [i \in 1..Len(raw) |->
        [title |-> raw[i].title, startPage |-> raw[i].startPage,
         endPage |-> raw[i].endPage, id |-> ids[i]]]

\* (mutant) a response that cannot be parsed gives null
LessonsApiCall_NullOnParseFailure(resp, ids) ==
    IF resp.kind = "null" THEN [k |-> "value", v |-> Null]
    ELSE IF resp.kind = "object" THEN [k |-> "error", v |-> NotAFunction]
    ELSE [k |-> "value", v |-> Lessons(AssignIdsToLessons(resp.list, ids))]

\* apiCall as callApiWithRetry sees it:
\* return rawLessons ? rawLessons.map(...) : [], where map is undefined on a
\* decoded object.
LessonsApiCall(resp, ids) ==
    IF resp.kind = "null" THEN [k |-> "value", v |-> Lessons(<<>>)]
    ELSE IF resp.kind = "object" THEN [k |-> "error", v |-> NotAFunction]
    ELSE [k |-> "value", v |-> Lessons(AssignIdsToLessons(resp.list, ids))]

LessonsInit ==
    /\ lpc = "loop"
    /\ lAttempt = 0
    /\ lResponse = None
    /\ lError = None
    /\ lResult = None

LessonsAtRest ==
    /\ lpc = "off"
    /\ lAttempt = 0
    /\ lResponse = None
    /\ lError = None
    /\ lResult = None

\* apiCall threw error e: callApiWithRetry's catch block, and when it
\* rethrows, the catch block of analyzeChapterForLessons (return null).
LessonsThrow(e) ==
    IF ShouldRetry(lAttempt + 1, e, DefaultMaxRetries)
    THEN /\ lpc' = "backoff"
         /\ lAttempt' = lAttempt + 1
         /\ UNCHANGED <<lError, lResult>>
    ELSE /\ lpc' = "done"
         /\ lAttempt' = lAttempt + 1
         /\ lError' = [k |-> "error", v |-> e]
         /\ lResult' = Null

LessonsReturn(resp, ids) ==
    /\ lResponse' = resp
    /\ IF LessonsApiCall(resp, ids).k = "value"
       THEN /\ lResult' = LessonsApiCall(resp, ids).v
            /\ lpc' = "done"
            /\ UNCHANGED <<lAttempt, lError>>
       ELSE LessonsThrow(LessonsApiCall(resp, ids).v)
    /\ UNCHANGED exceptLesson

\* generateContent resolves with a response that decodes to an array of
\* lessons, to an object, or to nothing.
LessonsRespond ==
    /\ lpc = "loop"
    /\ LoopGuard(lAttempt, DefaultMaxRetries)
    /\ \/ \E n \in 0..MaxLessons :
             \E pages \in [1..n -> PageDomain \X PageDomain] :
                 \E ids \in [1..n -> GeneratedIds] :
                     LessonsReturn(ArrayResponse(RawList(pages)), ids)
       \/ \E resp \in OtherResponses : LessonsReturn(resp, <<>>)

\* generateContent rejects.
LessonsFail ==
    /\ lpc = "loop"
    /\ LoopGuard(lAttempt, DefaultMaxRetries)
    /\ \E e \in Errors : LessonsThrow(e)
    /\ UNCHANGED lResponse
    /\ UNCHANGED exceptLesson

LessonsWake ==
    /\ lpc = "backoff"
    /\ lpc' = "loop"
    /\ UNCHANGED <<lAttempt, lResponse, lError, lResult>>
    /\ UNCHANGED exceptLesson

LessonsNext ==
    \/ LessonsRespond
    \/ LessonsFail
    \/ LessonsWake

-----------------------------------------------------------------------------
(* getAi and the start of every exported function                          *)

Client == [k |-> "client"]

\* The messages of the error the constructor of the client threw.
InitMessages == { <<"An API Key must be set">>, <<>> }

InitError(message) == [k |-> "error", v |-> message]

\* new Error(`Failed to initialize AI service: ${aiInitializationError.message}`)
FailedToInitialize(message) ==
    [k |-> "error", v |-> <<"Failed to initialize AI service:">> \o message]

NotInitialized == [k |-> "error", v |-> <<"AI service is not initialized.">>]

\* getAi(): the client, or the error thrown
GetAi(client, initError) ==
    IF initError # Null THEN FailedToInitialize(initError.v)
    ELSE IF client = Null THEN NotInitialized
    ELSE client

\* The exported functions of the service.
EntryPoints ==
    {"proofreadSinglePageText", "summarizeChapterText", "analyzeDocumentStructure",
     "analyzeChapterForLessons", "generateInteractiveLesson",
     "generateInitialQuestions", "getFeedbackOnAnswers", "getAiCorrections",
     "generateMoreQuestions", "getDeeperExplanation", "searchForMaterials",
     "createChat", "extractTextFromImage", "createChatWithContext",
     "searchWithinDocument", "categorizeBooks"}

\* Those that answer an empty argument without a remote call: an empty
\* text, or an empty list of answers or titles.
ShortCircuited ==
    {"proofreadSinglePageText", "summarizeChapterText", "getFeedbackOnAnswers",
     "getAiCorrections", "categorizeBooks"}

\* Those that create a chat session and make no request yet.
ChatCreators == {"createChat", "createChatWithContext"}

\* (mutant) the empty argument is answered before getAi() is called
EntryStart_ShortCircuitFirst(ep, client, initError, empty) ==
    IF empty /\ ep \in ShortCircuited
    THEN [pc |-> "done", result |-> [k |-> "default"], contacted |-> FALSE]
    ELSE IF GetAi(client, initError).k = "error"
    THEN [pc |-> "thrown", result |-> GetAi(client, initError), contacted |-> FALSE]
    ELSE IF ep \in ChatCreators
    THEN [pc |-> "done", result |-> [k |-> "chat"], contacted |-> FALSE]
    ELSE [pc |-> "requesting", result |-> None, contacted |-> TRUE]

\* An exported function up to its first await: const currentAi = getAi()
\* is its first statement, the check of an empty argument comes after it,
\* then the chat is created or generateContent is called.
EntryStart(ep, client, initError, empty) ==
    IF GetAi(client, initError).k = "error"
    THEN [pc |-> "thrown", result |-> GetAi(client, initError), contacted |-> FALSE]
    ELSE IF empty /\ ep \in ShortCircuited
    THEN [pc |-> "done", result |-> [k |-> "default"], contacted |-> FALSE]
    ELSE IF ep \in ChatCreators
    THEN [pc |-> "done", result |-> [k |-> "chat"], contacted |-> FALSE]
    ELSE [pc |-> "requesting", result |-> None, contacted |-> TRUE]

\* The module was loaded: the constructor returned the client, or threw an
\* error (or a value that is no error object); then a function is called.
EntryInit ==
    /\ \/ ai = Client /\ aiInitializationError = Null
       \/ ai = Null /\ \E m \in InitMessages : aiInitializationError = InitError(m)
       \/ ai = Null /\ aiInitializationError = Null
    /\ entry \in EntryPoints
    /\ emptyInput \in BOOLEAN
    /\ epc = "call"
    /\ contacted = FALSE
    /\ eResult = None

EntryAtRest ==
    /\ ai = Client
    /\ aiInitializationError = Null
    /\ entry = "none"
    /\ emptyInput = FALSE
    /\ epc = "off"
    /\ contacted = FALSE
    /\ eResult = None

EntryCall ==
    /\ epc = "call"
    /\ epc' = EntryStart(entry, ai, aiInitializationError, emptyInput).pc
    /\ eResult' = EntryStart(entry, ai, aiInitializationError, emptyInput).result
    /\ contacted' = EntryStart(entry, ai, aiInitializationError, emptyInput).contacted
    /\ UNCHANGED <<ai, aiInitializationError, entry, emptyInput>>
    /\ UNCHANGED exceptEntry

\* The wrapped call settles: the function returns what it made of the
\* response, or what it returns for a failed call.
EntrySettle ==
    /\ epc = "requesting"
    /\ epc' = "done"
    /\ \E r \in {"value", "default"} : eResult' = [k |-> r]
    /\ UNCHANGED <<ai, aiInitializationError, entry, emptyInput, contacted>>
    /\ UNCHANGED exceptEntry

EntryNext ==
    \/ EntryCall
    \/ EntrySettle

-----------------------------------------------------------------------------
(* Submitting answers and applying AI corrections: handleSubmitAnswers and *)
(* handleAiCorrectAnswers of App.tsx, handleSubmitAnswers and              *)
(* handleAiCorrect of the Test Me sidebar                                  *)

\* The components that hold a feedback list.
Surfaces == {"session", "sidebar"}

\* The option texts of a multiple-choice question.
Options == <<"alpha", "beta", "gamma">>

\* A multiple-choice block; correctAnswerIndex counts from 0.
ChoiceQuestion(id, correct) ==
    [id |-> id, type |-> "multiple_choice_question",
     question |-> <<"question", id>>, options |-> Options,
     correctAnswerIndex |-> correct]

\* (mutant) the texts of the user's answer and of the correct answer are
\* exchanged
GradePair_Swapped(q, ua) ==
    [questionId |-> q.id,
     question |-> q.question,
     userAnswer |-> q.options[q.correctAnswerIndex + 1],
     correctAnswer |-> q.options[ua.answer + 1]]

\* The question/answer pair getFeedbackOnAnswers builds for a
\* multiple-choice block and a numeric answer.
GradePair(q, ua) ==
    [questionId |-> q.id,
     question |-> q.question,
     userAnswer |-> q.options[ua.answer + 1],
     correctAnswer |-> q.options[q.correctAnswerIndex + 1]]

GradePairs(questions, answers) ==
    [i \in 1..Len(questions) |-> GradePair(questions[i], answers[i])]

\* The explanations the judge may write for a pair: one names the correct
\* answer, one does not.
Explanation(pair, names) ==
    IF names THEN <<"The correct answer is", pair.correctAnswer>>
    ELSE <<"Well done">>

\* A judging response with one item for each pair, in the order of the
\* pairs: the verdicts and the explanations are the judge's.
JudgeResponse(pairs, verdict, names) ==
    [i \in 1..Len(pairs) |->
        [questionId |-> pairs[i].questionId,
         isCorrect |-> verdict[i],
         explanation |-> Explanation(pairs[i], names[i])]]

\* qaPairsForAI.find(p => p?.questionId === id), counted from 1; 0 when
\* there is none.
FindPair(pairs, id) ==
    LET at == { j \in 1..Len(pairs) : pairs[j].questionId = id }
    IN  IF at = {} THEN 0 ELSE SetMin(at)

\* feedbackFromAI.map(fb => ({...fb, question, userAnswer}))
JudgedFeedback(pairs, items) ==
    [i \in 1..Len(items) |->
        [questionId |-> items[i].questionId,
         isCorrect |-> items[i].isCorrect,
         explanation |-> items[i].explanation,
         question |-> IF FindPair(pairs, items[i].questionId) = 0 THEN <<>>
                      ELSE pairs[FindPair(pairs, items[i].questionId)].question,
         userAnswer |-> IF FindPair(pairs, items[i].questionId) = 0 THEN <<>>
                        ELSE pairs[FindPair(pairs, items[i].questionId)].userAnswer]]

\* feedback.filter(fb => !fb.isCorrect).map(...).filter(item => item.question)
IncorrectAnswers(fb) ==
    LET Wrong(f) == ~f.isCorrect /\ f.question # <<>>
        kept == SelectSeq(fb, Wrong)
    IN  [i \in 1..Len(kept) |->
            [questionId |-> kept[i].questionId,
             question |-> kept[i].question,
             userAnswer |-> kept[i].userAnswer]]

Correction(id) == [questionId |-> id, correction |-> <<"Correction for", id>>]

\* The arrays a corrections response may decode to: none, one for each
\* incorrect answer sent, or a single one for any question of the feedback
\* or for a question that is not in it.
CorrectionLists(fb) ==
    LET inc == IncorrectAnswers(fb)
    IN  { <<>>, [i \in 1..Len(inc) |-> Correction(inc[i].questionId)] }
        \cup { << Correction(id) >> :
                 id \in { fb[i].questionId : i \in 1..Len(fb) } \cup {StaleId} }

\* corrections.find(c => c.questionId === id): the index of the first
\* correction with that id, 0 when there is none.
FindCorrection(corr, id) ==
    LET at == { j \in 1..Len(corr) : corr[j].questionId = id }
    IN  IF at = {} THEN 0 ELSE SetMin(at)

\* feedback.map(...) of handleAiCorrectAnswers (session), which returns
\* an item marked correct as it is, and of handleAiCorrect (sidebar), which
\* does not look at isCorrect.
ApplyCorrections(where, fb, corr) ==
    [i \in 1..Len(fb) |->
        IF where = "session" /\ fb[i].isCorrect THEN fb[i]
        ELSE IF FindCorrection(corr, fb[i].questionId) = 0 THEN fb[i]
        ELSE [fb[i] EXCEPT !.explanation =
                 corr[FindCorrection(corr, fb[i].questionId)].correction]]

GradeInit ==
    /\ surface \in Surfaces
    /\ \E n \in 1..MaxGraded :
          \E correct \in [1..n -> 0..(Len(Options) - 1)] :
              \E chosen \in [1..n -> 0..(Len(Options) - 1)] :
                  /\ gQuestions = [i \in 1..n |-> ChoiceQuestion(ToString(i), correct[i])]
                  /\ gAnswers = [i \in 1..n |->
                                   [questionId |-> ToString(i), answer |-> chosen[i]]]
    /\ gpc = "questions"
    /\ feedback = Null
    /\ isSubmitting = FALSE
    /\ isCorrecting = FALSE
    /\ gBefore = Null
    /\ corrections = None
    /\ gSent = <<>>
    /\ gJudged = <<>>

GradeAtRest ==
    /\ surface = "none"
    /\ gQuestions = <<>>
    /\ gAnswers = <<>>
    /\ gpc = "off"
    /\ feedback = Null
    /\ isSubmitting = FALSE
    /\ isCorrecting = FALSE
    /\ gBefore = Null
    /\ corrections = None
    /\ gSent = <<>>
    /\ gJudged = <<>>

\* handleSubmitAnswers up to its await; only App.tsx clears the feedback.
GradeSubmit ==
    /\ gpc = "questions"
    /\ isSubmitting' = TRUE
    /\ feedback' = IF surface = "session" THEN Null ELSE feedback
    /\ gpc' = "judging"
    /\ UNCHANGED <<surface, gQuestions, gAnswers, isCorrecting, gBefore, corrections,
                   gSent, gJudged>>
    /\ UNCHANGED exceptGrade

\* getFeedbackOnAnswers settles and the handler runs to its end: a list of
\* judged items is stored, null and a thrown error leave the feedback as it
\* is; the finally block clears isSubmitting.
GradeJudged ==
    /\ gpc = "judging"
    /\ gSent' = GradePairs(gQuestions, gAnswers)
    /\ \/ \E verdict \in [1..Len(gQuestions) -> BOOLEAN] :
            \E names \in [1..Len(gQuestions) -> BOOLEAN] :
               /\ gJudged' = JudgeResponse(gSent', verdict, names)
               /\ feedback' = Feedback(JudgedFeedback(gSent', gJudged'))
               /\ gpc' = "results"
       \/ /\ UNCHANGED <<feedback, gJudged>>
          /\ gpc' = "questions"
    /\ isSubmitting' = FALSE
    /\ UNCHANGED <<surface, gQuestions, gAnswers, isCorrecting, gBefore, corrections>>
    /\ UNCHANGED exceptGrade

\* handleAiCorrectAnswers / handleAiCorrect up to the await: they return
\* at once without feedback or without an incorrect answer to send.  One
\* corrections request is followed.
GradeCorrect ==
    /\ gpc = "results"
    /\ feedback # Null
    /\ Len(IncorrectAnswers(feedback.list)) # 0
    /\ isCorrecting' = TRUE
    /\ gBefore' = feedback
    /\ corrections' = None
    /\ gpc' = "correcting"
    /\ UNCHANGED <<surface, gQuestions, gAnswers, feedback, isSubmitting, gSent, gJudged>>
    /\ UNCHANGED exceptGrade

\* getAiCorrections settles and the handler runs to its end, over the
\* feedback list its closure holds; null and a thrown error change no
\* feedback; the finally block clears isCorrecting.
GradeCorrected ==
    /\ gpc = "correcting"
    /\ \/ \E corr \in CorrectionLists(gBefore.list) :
             /\ corrections' = [k |-> "value", v |-> corr]
             /\ feedback' = Feedback(ApplyCorrections(surface, gBefore.list, corr))
       \/ /\ corrections' = Null
          /\ UNCHANGED feedback
    /\ isCorrecting' = FALSE
    /\ gpc' = "corrected"
    /\ UNCHANGED <<surface, gQuestions, gAnswers, isSubmitting, gBefore, gSent, gJudged>>
    /\ UNCHANGED exceptGrade

GradeNext ==
    \/ GradeSubmit
    \/ GradeJudged
    \/ GradeCorrect
    \/ GradeCorrected

-----------------------------------------------------------------------------
(* The Test Me sidebar: handleGenerate, handleReset and the effect on      *)
(* isOpen of QuestionGeneratorSidebar.tsx                                  *)

FillInTheBlank == "fill_in_the_blank_question"

\* The blocks generateInitialQuestions may return to the sidebar: a
\* fill-in-the-blank question with any number of parts and of answers, a
\* multiple-choice question and a block that is no question.
SidebarBlocks ==
    { [type |-> FillInTheBlank, id |-> NoId, questionParts |-> p, correctAnswers |-> a] :
        p \in 0..MaxParts, a \in 0..MaxParts }
    \cup { [type |-> "multiple_choice_question", id |-> NoId],
           [type |-> "explanation", id |-> NoId] }

\* questions.filter(q => q.type.endsWith('_question'))
FilterQuestions(questions) ==
    LET IsQuestion(q) == EndsWithQuestion(q.type)
    IN  SelectSeq(questions, IsQuestion)

\* renderQuestion, fill_in_the_blank_question: one input after each entry
\* of questionParts whose index i has i < correctAnswers.length.
BlanksPresented(b) ==
    Cardinality({ i \in 0..(b.questionParts - 1) : i < b.correctAnswers })

\* handleReset(true)
SidebarReset ==
    /\ currentStep' = "upload"
    /\ isLoading' = FALSE
    /\ sError' = FALSE
    /\ questionsToDisplay' = Null

\* handleGenerate up to its await; an empty chapter text throws before the
\* request is made.
SidebarGenerate(emptyText) ==
    /\ questionsToDisplay' = Null
    /\ IF emptyText
       THEN /\ sError' = TRUE
            /\ currentStep' = "chapters"
            /\ isLoading' = FALSE
            /\ UNCHANGED <<spc, sAbandoned>>
       ELSE /\ sError' = FALSE
            /\ isLoading' = TRUE
            /\ spc' = "pending"
            /\ sAbandoned' = FALSE
            /\ UNCHANGED currentStep

SidebarInit ==
    /\ isOpen = FALSE
    /\ currentStep = "upload"
    /\ isLoading = FALSE
    /\ questionsToDisplay = Null
    /\ sError = FALSE
    /\ spc = "idle"
    /\ resetTimer = FALSE
    /\ sAbandoned = FALSE
    /\ sBefore = None
    /\ sLast = "init"

SidebarAtRest ==
    /\ isOpen = FALSE
    /\ currentStep = "upload"
    /\ isLoading = FALSE
    /\ questionsToDisplay = Null
    /\ sError = FALSE
    /\ spc = "off"
    /\ resetTimer = FALSE
    /\ sAbandoned = FALSE
    /\ sBefore = None
    /\ sLast = "off"

\* The sidebar opens: with a chapter chosen the effect calls handleGenerate,
\* without one it calls handleReset(true).  One request is followed at a
\* time.
SidebarOpen ==
    /\ ~isOpen
    /\ spc \in {"idle", "settled"}
    /\ isOpen' = TRUE
    /\ \/ \E emptyText \in BOOLEAN : SidebarGenerate(emptyText)
       \/ SidebarReset /\ UNCHANGED <<spc, sAbandoned>>
    /\ sLast' = "open"
    /\ UNCHANGED <<resetTimer, sBefore>>
    /\ UNCHANGED exceptSidebar

\* handleChapterSelect on the list of chapters
SidebarChapterSelect ==
    /\ isOpen
    /\ currentStep = "chapters"
    /\ spc \in {"idle", "settled"}
    /\ \E emptyText \in BOOLEAN : SidebarGenerate(emptyText)
    /\ sLast' = "select"
    /\ UNCHANGED <<isOpen, resetTimer, sBefore>>
    /\ UNCHANGED exceptSidebar

\* onClose: the effect schedules handleReset(true) in 300 ms.
SidebarClose ==
    /\ isOpen
    /\ isOpen' = FALSE
    /\ resetTimer' = TRUE
    /\ sAbandoned' = (sAbandoned \/ spc = "pending")
    /\ sLast' = "close"
    /\ UNCHANGED <<currentStep, isLoading, questionsToDisplay, sError, spc, sBefore>>
    /\ UNCHANGED exceptSidebar

\* The timer of the closing effect fires.
SidebarResetFires ==
    /\ resetTimer
    /\ resetTimer' = FALSE
    /\ SidebarReset
    /\ sAbandoned' = (sAbandoned \/ spc = "pending")
    /\ sLast' = "reset"
    /\ UNCHANGED <<isOpen, spc, sBefore>>
    /\ UNCHANGED exceptSidebar

\* generateInitialQuestions settles and handleGenerate runs to its end:
\* a list is filtered and stored and the step becomes 'questions'; null
\* and a thrown error set the error and the step 'chapters'.
SidebarGenerated ==
    /\ spc = "pending"
    /\ \/ \E n \in 0..MaxBlocks :
             \E bs \in [1..n -> SidebarBlocks] :
                \E ids \in [1..n -> GeneratedIds] :
                   /\ questionsToDisplay' =
                         Blocks(FilterQuestions(AssignIdsToBlocks(bs, ids)))
                   /\ currentStep' = "questions"
                   /\ UNCHANGED sError
       \/ /\ sError' = TRUE
          /\ currentStep' = "chapters"
          /\ UNCHANGED questionsToDisplay
    /\ isLoading' = FALSE
    /\ spc' = "settled"
    /\ sBefore' = [step |-> currentStep, questions |-> questionsToDisplay]
    /\ sLast' = "settle"
    /\ UNCHANGED <<isOpen, resetTimer, sAbandoned>>
    /\ UNCHANGED exceptSidebar

SidebarNext ==
    \/ SidebarOpen
    \/ SidebarChapterSelect
    \/ SidebarClose
    \/ SidebarResetFires
    \/ SidebarGenerated

-----------------------------------------------------------------------------
(* Selecting a file: handleFileSelect and handleBackToUpload of App.tsx    *)

Selections == 1..MaxSelections

\* How an awaited call of the storage service or of the text extraction
\* may settle.
Settlements == {"resolved", "rejected"}

\* A handleFileSelect invocation between its first statement and its end.
UploadPending(i) == upc[i] \notin {"idle", "done"}

Book(i) == [k |-> "book", of |-> i]

UploadInit ==
    /\ appState = "uploading"
    /\ isSavingRef = FALSE
    /\ activeBook = Null
    /\ upc = [i \in Selections |-> "idle"]
    /\ uAbandoned = [i \in Selections |-> FALSE]
    /\ uBefore = None
    /\ uLast = [k |-> "init", of |-> 0]

UploadAtRest ==
    /\ appState = "off"
    /\ isSavingRef = FALSE
    /\ activeBook = Null
    /\ upc = <<>>
    /\ uAbandoned = <<>>
    /\ uBefore = None
    /\ uLast = [k |-> "off", of |-> 0]

\* The invocation ends: in the catch block (setAppState('error')), or past
\* the if statement.
UploadEnd(i, caught) ==
    /\ upc' = [upc EXCEPT ![i] = "done"]
    /\ uBefore' = [appState |-> appState, activeBook |-> activeBook]
    /\ uLast' = [k |-> "end", of |-> i]
    /\ IF caught THEN appState' = "error" ELSE TRUE

\* handleFileSelect up to its first await
UploadSelect(i) ==
    /\ upc[i] = "idle"
    /\ appState' = "analyzing"
    /\ upc' = [upc EXCEPT ![i] = "reading"]
    /\ uLast' = [k |-> "select", of |-> i]
    /\ UNCHANGED <<isSavingRef, activeBook, uAbandoned, uBefore>>
    /\ UNCHANGED exceptUpload

\* file.arrayBuffer() and extractTextPerPage(file) settle.
UploadRead(i) ==
    /\ upc[i] = "reading"
    /\ \E s \in Settlements :
          IF s = "resolved"
          THEN /\ upc' = [upc EXCEPT ![i] = "analyzing"]
               /\ uLast' = [k |-> "read", of |-> i]
               /\ UNCHANGED <<appState, uBefore>>
          ELSE UploadEnd(i, TRUE)
    /\ UNCHANGED <<isSavingRef, activeBook, uAbandoned>>
    /\ UNCHANGED exceptUpload

\* analyzeDocumentStructure settles: with a list the book is built and,
\* when isSavingRef.current is false, the guard is taken and saveBook
\* awaited; when it is true nothing more is done.  A rejection (getAi
\* throws) goes to the catch block.
UploadAnalyzed(i) ==
    /\ upc[i] = "analyzing"
    /\ \E s \in Settlements :
          IF s = "resolved"
          THEN IF ~isSavingRef
               THEN /\ isSavingRef' = TRUE
                    /\ upc' = [upc EXCEPT ![i] = "saving"]
                    /\ uLast' = [k |-> "analyzed", of |-> i]
                    /\ UNCHANGED <<appState, uBefore>>
               ELSE /\ UploadEnd(i, FALSE)
                    /\ UNCHANGED <<appState, isSavingRef>>
          ELSE /\ UploadEnd(i, TRUE)
               /\ UNCHANGED isSavingRef
    /\ UNCHANGED <<activeBook, uAbandoned>>
    /\ UNCHANGED exceptUpload

\* saveBook settles.
UploadSaved(i) ==
    /\ upc[i] = "saving"
    /\ \E s \in Settlements :
          IF s = "resolved"
          THEN /\ upc' = [upc EXCEPT ![i] = "savingState"]
               /\ uLast' = [k |-> "saved", of |-> i]
               /\ UNCHANGED <<appState, uBefore>>
          ELSE UploadEnd(i, TRUE)
    /\ UNCHANGED <<isSavingRef, activeBook, uAbandoned>>
    /\ UNCHANGED exceptUpload

\* saveActiveBookState settles: the book becomes the active one, the state
\* 'chapter_selection' and the guard is released.
UploadStateSaved(i) ==
    /\ upc[i] = "savingState"
    /\ \E s \in Settlements :
          IF s = "resolved"
          THEN /\ activeBook' = Book(i)
               /\ appState' = "chapter_selection"
               /\ isSavingRef' = FALSE
               /\ UploadEnd(i, FALSE)
          ELSE /\ UploadEnd(i, TRUE)
               /\ UNCHANGED <<isSavingRef, activeBook>>
    /\ UNCHANGED uAbandoned
    /\ UNCHANGED exceptUpload

\* handleBackToUpload, after clearActiveBookState
UploadBack ==
    /\ \E i \in Selections : upc[i] # "idle"
    /\ appState' = "uploading"
    /\ activeBook' = Null
    /\ uAbandoned' = [i \in Selections |-> uAbandoned[i] \/ UploadPending(i)]
    /\ uLast' = [k |-> "back", of |-> 0]
    /\ UNCHANGED <<isSavingRef, upc, uBefore>>
    /\ UNCHANGED exceptUpload

UploadNext ==
    \/ \E i \in Selections : UploadSelect(i)
    \/ \E i \in Selections : UploadRead(i)
    \/ \E i \in Selections : UploadAnalyzed(i)
    \/ \E i \in Selections : UploadSaved(i)
    \/ \E i \in Selections : UploadStateSaved(i)
    \/ UploadBack

-----------------------------------------------------------------------------
(* The session content: handleGenerateInitialQuestions,                    *)
(* handleGenerateMoreQuestions and handleGetDeeperExplanation of App.tsx   *)

ExplanationBlock(id, txt) == [type |-> "explanation", id |-> id, text |-> txt]

QuestionBlock(id) == [type |-> "open_ended_question", id |-> id]

\* The content of a generated lesson: explanation blocks.
LessonContent(n) == [i \in 1..n |-> ExplanationBlock(<<"lesson", i>>, <<"text", i>>)]

\* contentCopy.findIndex(b => b.type === 'explanation' && b.text === text),
\* counted from 1; 0 when there is none.
FindExplanation(blocks, txt) ==
    LET at == { i \in 1..Len(blocks) :
                  blocks[i].type = "explanation" /\ blocks[i].text = txt }
    IN  IF at = {} THEN 0 ELSE SetMin(at)

\* contentCopy.splice(index + 1, 0, newBlock), index counted from 1
SpliceAfter(blocks, index, newBlock) ==
    SubSeq(blocks, 1, index) \o <<newBlock>> \o SubSeq(blocks, index + 1, Len(blocks))

ContentInit ==
    /\ \E n \in 1..MaxBlocks : interactiveContent = LessonContent(n)
    /\ isGeneratingMore = FALSE
    /\ kpc = "idle"
    /\ appended = <<>>
    /\ dpc = "idle"
    /\ dContent = <<>>
    /\ dText = <<>>
    /\ dBlock = None

ContentAtRest ==
    /\ interactiveContent = <<>>
    /\ isGeneratingMore = FALSE
    /\ kpc = "off"
    /\ appended = <<>>
    /\ dpc = "off"
    /\ dContent = <<>>
    /\ dText = <<>>
    /\ dBlock = None

\* handleGenerateInitialQuestions or handleGenerateMoreQuestions up to the
\* await
ContentGenerate ==
    /\ kpc = "idle"
    /\ isGeneratingMore' = TRUE
    /\ kpc' = "pending"
    /\ UNCHANGED <<interactiveContent, appended, dpc, dContent, dText, dBlock>>
    /\ UNCHANGED exceptContent

\* The awaited call settles.  A non-empty list is appended to the latest
\* content (functional update), null and an empty list raise an alert, and
\* both reach setIsGeneratingMore(false); a thrown error (getAi) leaves the
\* handler at the await.
ContentGenerated ==
    /\ kpc = "pending"
    /\ \/ \E n \in 1..MaxBlocks :
             \E ids \in [1..n -> GeneratedIds] :
                /\ interactiveContent' =
                      interactiveContent \o [i \in 1..n |-> QuestionBlock(ids[i])]
                /\ appended' = appended \o [i \in 1..n |-> QuestionBlock(ids[i])]
                /\ isGeneratingMore' = FALSE
                /\ kpc' = "done"
       \/ /\ isGeneratingMore' = FALSE
          /\ kpc' = "done"
          /\ UNCHANGED <<interactiveContent, appended>>
       \/ /\ kpc' = "thrown"
          /\ UNCHANGED <<interactiveContent, appended, isGeneratingMore>>
    /\ UNCHANGED <<dpc, dContent, dText, dBlock>>
    /\ UNCHANGED exceptContent

\* handleGetDeeperExplanation(text) up to the await, for the text of an
\* explanation block on display; the handler closes over the
\* interactiveContent of the render it was made in.
ContentExplain ==
    /\ dpc = "idle"
    /\ \E i \in 1..Len(interactiveContent) :
          /\ interactiveContent[i].type = "explanation"
          /\ dText' = interactiveContent[i].text
    /\ dContent' = interactiveContent
    /\ dpc' = "pending"
    /\ UNCHANGED <<interactiveContent, isGeneratingMore, kpc, appended, dBlock>>
    /\ UNCHANGED exceptContent

\* getDeeperExplanation settles: with a text the new block is spliced into
\* a copy of the content the closure holds and that copy is stored; an
\* empty text raises an alert; a thrown error (getAi) ends the handler.
ContentExplained ==
    /\ dpc = "pending"
    /\ \/ \E id \in GeneratedIds :
             LET newBlock == ExplanationBlock(id, <<"Further Explanation", dText>>)
                 index == FindExplanation(dContent, dText)
             IN  IF index # 0
                 THEN /\ interactiveContent' = SpliceAfter(dContent, index, newBlock)
                      /\ dBlock' = newBlock
                      /\ dpc' = "done"
                 ELSE /\ dpc' = "done"
                      /\ UNCHANGED <<interactiveContent, dBlock>>
       \/ /\ dpc' \in {"done", "thrown"}
          /\ UNCHANGED <<interactiveContent, dBlock>>
    /\ UNCHANGED <<isGeneratingMore, kpc, appended, dContent, dText>>
    /\ UNCHANGED exceptContent

ContentNext ==
    \/ ContentGenerate
    \/ ContentGenerated
    \/ ContentExplain
    \/ ContentExplained

-----------------------------------------------------------------------------
(* Analysing chapters for lessons: handleAnalyzeSubstructure of App.tsx    *)

Analysed == 1..MaxAnalysed

\* A chapter as the handler sees it: its lessons (none before an analysis)
\* and its isAnalyzing flag.
ChapterEntry(lessons, analyzing) == [lessons |-> lessons, isAnalyzing |-> analyzing]

NoLessons == [k |-> "undefined"]

\* The lessons an analysis of chapter i may return: a list of its own, or
\* no lesson at all (lessons || [] for null).
LessonsOf(i) == { Lessons(<< <<"lesson of chapter", i>> >>), Lessons(<<>>) }

ChaptersInit ==
    /\ appChapters = [i \in Analysed |-> ChapterEntry(NoLessons, FALSE)]
    /\ bookChapters = appChapters
    /\ savedChapters = appChapters
    /\ cpc = [i \in Analysed |-> "idle"]
    /\ cCopy = [i \in Analysed |-> <<>>]
    /\ cLessons = [i \in Analysed |-> None]

ChaptersAtRest ==
    /\ appChapters = <<>>
    /\ bookChapters = <<>>
    /\ savedChapters = <<>>
    /\ cpc = <<>>
    /\ cCopy = <<>>
    /\ cLessons = <<>>

\* handleAnalyzeSubstructure(i) up to its await: a copy of the chapters on
\* display, with isAnalyzing set on chapter i, is displayed and kept.
ChaptersAnalyze(i) ==
    /\ cpc[i] = "idle"
    /\ appChapters' = [appChapters EXCEPT ![i].isAnalyzing = TRUE]
    /\ cCopy' = [cCopy EXCEPT ![i] = [appChapters EXCEPT ![i].isAnalyzing = TRUE]]
    /\ cpc' = [cpc EXCEPT ![i] = "pending"]
    /\ UNCHANGED <<bookChapters, savedChapters, cLessons>>
    /\ UNCHANGED exceptChapters

\* analyzeChapterForLessons settles: the lessons are written into the
\* copy the invocation kept and that copy is displayed; a thrown error
\* (getAi) ends the handler at the await.
ChaptersAnalyzed(i) ==
    /\ cpc[i] = "pending"
    /\ \/ \E lessons \in LessonsOf(i) :
             /\ cCopy' = [cCopy EXCEPT ![i] =
                            [cCopy[i] EXCEPT ![i] = ChapterEntry(lessons, FALSE)]]
             /\ appChapters' = [cCopy[i] EXCEPT ![i] = ChapterEntry(lessons, FALSE)]
             /\ cLessons' = [cLessons EXCEPT ![i] = lessons]
             /\ cpc' = [cpc EXCEPT ![i] = "saving"]
       \/ /\ cpc' = [cpc EXCEPT ![i] = "thrown"]
          /\ UNCHANGED <<appChapters, cCopy, cLessons>>
    /\ UNCHANGED <<bookChapters, savedChapters>>
    /\ UNCHANGED exceptChapters

\* saveBook(updatedBook) resolves.
ChaptersSaved(i) ==
    /\ cpc[i] = "saving"
    /\ savedChapters' = cCopy[i]
    /\ cpc' = [cpc EXCEPT ![i] = "savingState"]
    /\ UNCHANGED <<appChapters, bookChapters, cCopy, cLessons>>
    /\ UNCHANGED exceptChapters

\* saveActiveBookState resolves; setActiveBook(updatedBook).
ChaptersStateSaved(i) ==
    /\ cpc[i] = "savingState"
    /\ bookChapters' = cCopy[i]
    /\ cpc' = [cpc EXCEPT ![i] = "done"]
    /\ UNCHANGED <<appChapters, savedChapters, cCopy, cLessons>>
    /\ UNCHANGED exceptChapters

ChaptersNext ==
    \/ \E i \in Analysed : ChaptersAnalyze(i)
    \/ \E i \in Analysed : ChaptersAnalyzed(i)
    \/ \E i \in Analysed : ChaptersSaved(i)
    \/ \E i \in Analysed : ChaptersStateSaved(i)

\* The handlers of the user interface at rest.
UiAtRest == GradeAtRest /\ SidebarAtRest /\ UploadAtRest /\ ContentAtRest /\ ChaptersAtRest

-----------------------------------------------------------------------------
(* Specifications                                                          *)

InitRetry == RetryInit /\ ParseAtRest /\ AnalyzeAtRest /\ QuestionsAtRest /\ FeedbackAtRest
             /\ LessonsAtRest /\ EntryAtRest /\ UiAtRest

SpecRetry ==
    /\ InitRetry
    /\ [][RetryNext]_vars

InitParse == ParseInit /\ RetryAtRest /\ AnalyzeAtRest /\ QuestionsAtRest /\ FeedbackAtRest
             /\ LessonsAtRest /\ EntryAtRest /\ UiAtRest

SpecParse ==
    /\ InitParse
    /\ [][ParseNext]_vars

InitAnalyze == AnalyzeInit /\ ParseAtRest /\ RetryAtRest /\ QuestionsAtRest /\ FeedbackAtRest
             /\ LessonsAtRest /\ EntryAtRest /\ UiAtRest

SpecAnalyze ==
    /\ InitAnalyze
    /\ [][AnalyzeNext]_vars

InitQuestions ==
    QuestionsInit /\ RetryAtRest /\ ParseAtRest /\ AnalyzeAtRest /\ FeedbackAtRest
                  /\ LessonsAtRest /\ EntryAtRest /\ UiAtRest

SpecQuestions ==
    /\ InitQuestions
    /\ [][QuestionsNext]_vars

InitFeedback ==
    FeedbackInit /\ RetryAtRest /\ ParseAtRest /\ AnalyzeAtRest /\ QuestionsAtRest
                 /\ LessonsAtRest /\ EntryAtRest /\ UiAtRest

SpecFeedback ==
    /\ InitFeedback
    /\ [][FeedbackNext]_vars

InitLessons ==
    LessonsInit /\ RetryAtRest /\ ParseAtRest /\ AnalyzeAtRest /\ QuestionsAtRest
                /\ FeedbackAtRest /\ EntryAtRest /\ UiAtRest

SpecLessons ==
    /\ InitLessons
    /\ [][LessonsNext]_vars

InitEntry ==
    EntryInit /\ RetryAtRest /\ ParseAtRest /\ AnalyzeAtRest /\ QuestionsAtRest
              /\ FeedbackAtRest /\ LessonsAtRest /\ UiAtRest

SpecEntry ==
    /\ InitEntry
    /\ [][EntryNext]_vars

InitGrade ==
    GradeInit /\ RetryAtRest /\ ParseAtRest /\ AnalyzeAtRest /\ QuestionsAtRest
              /\ FeedbackAtRest /\ LessonsAtRest /\ EntryAtRest
              /\ SidebarAtRest
              /\ UploadAtRest
              /\ ContentAtRest
              /\ ChaptersAtRest

SpecGrade ==
    /\ InitGrade
    /\ [][GradeNext]_vars

InitSidebar ==
    SidebarInit /\ RetryAtRest /\ ParseAtRest /\ AnalyzeAtRest /\ QuestionsAtRest
              /\ FeedbackAtRest /\ LessonsAtRest /\ EntryAtRest
              /\ GradeAtRest
              /\ UploadAtRest
              /\ ContentAtRest
              /\ ChaptersAtRest

SpecSidebar ==
    /\ InitSidebar
    /\ [][SidebarNext]_vars

InitUpload ==
    UploadInit /\ RetryAtRest /\ ParseAtRest /\ AnalyzeAtRest /\ QuestionsAtRest
              /\ FeedbackAtRest /\ LessonsAtRest /\ EntryAtRest
              /\ GradeAtRest
              /\ SidebarAtRest
              /\ ContentAtRest
              /\ ChaptersAtRest

SpecUpload ==
    /\ InitUpload
    /\ [][UploadNext]_vars

InitContent ==
    ContentInit /\ RetryAtRest /\ ParseAtRest /\ AnalyzeAtRest /\ QuestionsAtRest
              /\ FeedbackAtRest /\ LessonsAtRest /\ EntryAtRest
              /\ GradeAtRest
              /\ SidebarAtRest
              /\ UploadAtRest
              /\ ChaptersAtRest

SpecContent ==
    /\ InitContent
    /\ [][ContentNext]_vars

\* Every awaited call settles: the promise of a remote call resolves or
\* rejects, and the continuation of the handler is then run.
SpecContentFair ==
    /\ InitContent
    /\ [][ContentNext]_vars
    /\ WF_vars(ContentGenerated)
    /\ WF_vars(ContentExplained)

InitChapters ==
    ChaptersInit /\ RetryAtRest /\ ParseAtRest /\ AnalyzeAtRest /\ QuestionsAtRest
              /\ FeedbackAtRest /\ LessonsAtRest /\ EntryAtRest
              /\ GradeAtRest
              /\ SidebarAtRest
              /\ UploadAtRest
              /\ ContentAtRest

SpecChapters ==
    /\ InitChapters
    /\ [][ChaptersNext]_vars

-----------------------------------------------------------------------------
(* Claims about analyzeDocumentStructure (SpecAnalyze)                     *)

\* The errors that carry the transient-fault signature.
TransientErrors == { e \in Errors : \E i \in 1..Len(e) : e[i] = "500 INTERNAL" }

\* C1: no two adjacent chapters of a returned list overlap:
\* chapters[i].endPage < chapters[i+1].startPage for every adjacent pair.
C1_NoAdjacentOverlap ==
    apc = "done" =>
        \A i \in 1..(Len(chapters) - 1) :
            chapters[i].endPage < chapters[i+1].startPage

\* C2: the last chapter of a returned list ends on the last page of the
\* document, whatever the raw output said.
C2_LastEndsAtTotal ==
    (apc = "done" /\ Len(chapters) > 0) =>
        chapters[Len(chapters)].endPage = totalPages

\* C3: a call on a non-empty page sequence never returns an empty list.
C3_ResultNonEmpty ==
    (apc = "done" /\ totalPages >= 1) => Len(chapters) > 0

\* C4: a returned list is in non-decreasing order of startPage.
C4_SortedByStartPage ==
    apc = "done" =>
        \A i \in 1..(Len(chapters) - 1) :
            chapters[i].startPage <= chapters[i+1].startPage

\* The response decoded to an array with at least one element.
GotChapters ==
    /\ response # None
    /\ response.kind = "array"
    /\ Len(response.list) > 0

\* The response could not be parsed, or parsed to an array of no chapters.
GotNothing ==
    /\ response # None
    /\ \/ response.kind = "null"
       \/ response.kind = "array" /\ Len(response.list) = 0

IsWholeDocument(list) ==
    /\ Len(list) = 1
    /\ list[1].title = "Full Document"
    /\ list[1].startPage = 1
    /\ list[1].endPage = totalPages

\* C11: the call never ends with a thrown error; when the response cannot
\* be parsed, or parses to zero chapters, or the wrapped call fails, the
\* result is the single chapter "Full Document" from page 1 to the last
\* page; every result is that fallback or comes from a non-empty array.
C11_FallbackOnFailure ==
    /\ apc # "thrown"
    /\ apc = "done" =>
          /\ (GotNothing \/ aError # None) => IsWholeDocument(chapters)
          /\ IsWholeDocument(chapters) \/ GotChapters

\* The third attempt failed with the transient fault, after two retries.
C11_Witness ==
    /\ apc = "done"
    /\ aError # None
    /\ aError.v \in TransientErrors
    /\ IsWholeDocument(chapters)

\* What the claim says chapter i of the raw list becomes.
C12_Expected(raw, i) ==
    [title |-> raw[i].title,
     startPage |-> raw[i].startPage,
     endPage |-> IF i = Len(raw) THEN totalPages
                 ELSE IF raw[i].endPage >= raw[i+1].startPage
                      THEN raw[i+1].startPage - 1
                      ELSE raw[i].endPage]

\* C12: every chapter of a result made from a non-empty raw list is a raw
\* chapter with its title and startPage unchanged and its endPage set to
\* the next raw startPage - 1 when the raw endPage reaches that startPage,
\* to the page count when it is the last one, and left alone otherwise;
\* every raw chapter so reconciled whose range is valid is in the result.
\* For 10 pages and raw [Ch1 1-5, Ch2 4-10] the result is
\* [Ch1 1-3, Ch2 4-10].
C12_OverlapReconciled ==
    /\ (apc = "done" /\ GotChapters) =>
          /\ \A j \in 1..Len(chapters) :
                \E i \in 1..Len(response.list) :
                    chapters[j] = C12_Expected(response.list, i)
          /\ \A i \in 1..Len(response.list) :
                LET c == C12_Expected(response.list, i)
                IN  (0 < c.startPage /\ c.startPage <= totalPages
                       /\ c.startPage <= c.endPage)
                    => \E j \in 1..Len(chapters) : chapters[j] = c
    /\ ApiCallResult(
          ArrayResponse(<< [title |-> "Ch1", startPage |-> 1, endPage |-> 5],
                           [title |-> "Ch2", startPage |-> 4, endPage |-> 10] >>),
          10)
        = << [title |-> "Ch1", startPage |-> 1, endPage |-> 3],
             [title |-> "Ch2", startPage |-> 4, endPage |-> 10] >>

\* The first raw chapter reaches into the second and is cut back.
C12_Witness ==
    /\ apc = "done"
    /\ GotChapters
    /\ Len(response.list) = 2
    /\ response.list[1].endPage >= response.list[2].startPage
    /\ Len(chapters) = 2
    /\ chapters[1].endPage = response.list[2].startPage - 1
    /\ chapters[1].endPage < response.list[1].endPage

\* C13: every chapter of a returned list satisfies
\* 0 < startPage <= total page count and startPage <= endPage.
C13_ChaptersInRange ==
    apc = "done" =>
        \A j \in 1..Len(chapters) :
            /\ 0 < chapters[j].startPage
            /\ chapters[j].startPage <= totalPages
            /\ chapters[j].startPage <= chapters[j].endPage

-----------------------------------------------------------------------------
(* Claims about generateInitialQuestions (SpecQuestions)                   *)

\* C14: the retry policy of callApiWithRetry governs the remote calls of
\* generateInitialQuestions: a rejection without the transient-fault
\* signature ends the call with no further attempt, and the wait before
\* retry number n is 1000 * n ms.
C14_WrapperPolicyApplies ==
    /\ \A i \in 1..Len(qOutcomes) :
          (qOutcomes[i].k = "error" /\ ~IsServerError(qOutcomes[i].v))
          => (i = Len(qOutcomes) /\ qpc = "done")
    /\ \A i \in 1..Len(qDelays) : qDelays[i] = BackoffDelay(i)

\* Three attempts were made and each response was unparseable.
ThreeUnparseable ==
    /\ Len(qOutcomes) = QuestionAttempts
    /\ \A i \in 1..Len(qOutcomes) : qOutcomes[i].k = "null"

\* After three unparseable responses there is no fourth attempt and no
\* wait, the waits were 500 ms then 1000 ms, and the value returned is null.
C15_ThreeThenNull ==
    /\ Len(qOutcomes) <= QuestionAttempts
    /\ ThreeUnparseable =>
          /\ qpc # "wait"
          /\ qAttempt = QuestionAttempts
          /\ qDelays = <<500, 1000>>
          /\ qpc = "done" => qResult = Null

\* C15 as stated: three unparseable responses give null after exactly 3
\* attempts with waits of 500 ms then 1000 ms and none after the last; the
\* attempt whose response parses is the last one, and the call returns.
C15_AsStated ==
    /\ C15_ThreeThenNull
    /\ \A i \in 1..Len(qOutcomes) :
          qOutcomes[i].k \in {"array", "object"}
          => (i = Len(qOutcomes) /\ qpc = "done")

\* C15 (amended): as stated, but the attempt that ends the call is the
\* first whose response parses to an array; its blocks are returned.
C15_StopsAtFirstArray ==
    /\ C15_ThreeThenNull
    /\ \A i \in 1..Len(qOutcomes) :
          qOutcomes[i].k = "array"
          => (i = Len(qOutcomes) /\ qpc = "done" /\ qResult.k = "blocks")

C15_Witness ==
    /\ qpc = "done"
    /\ ThreeUnparseable
    /\ qResult = Null
    /\ qDelays = <<500, 1000>>

ReturnedBlocks == qpc = "done" /\ qResult.k = "blocks"

\* C17: no block of a returned list has a type other than the six known.
C17_OnlyKnownTypes ==
    ReturnedBlocks =>
        \A i \in 1..Len(qResult.list) : qResult.list[i].type \in KnownTypes

\* C18: every returned block carries a generated id, not the raw one, and
\* the ids of a returned list are pairwise distinct.
C18_FreshDistinctIds ==
    ReturnedBlocks =>
        /\ \A i \in 1..Len(qResult.list) : qResult.list[i].id \in GeneratedIds
        /\ \A i, j \in 1..Len(qResult.list) :
              i # j => qResult.list[i].id # qResult.list[j].id

-----------------------------------------------------------------------------
(* Claims about getFeedbackOnAnswers (SpecFeedback)                        *)

\* C16: a feedback call over blocks made from malformed output never
\* throws; it ends with null or a list of feedback items.
C16_NeverThrows ==
    /\ fpc # "thrown"
    /\ fpc = "done" => fResult.k \in {"null", "feedback"}

-----------------------------------------------------------------------------
(* Claims about analyzeChapterForLessons (SpecLessons)                     *)

\* The remote call failed for good: callApiWithRetry threw the error of a
\* rejection, a transient one only on the last of its attempts.
RemoteCallFailed ==
    /\ lError # None
    /\ lError.v \in Errors
    /\ lError.v \in TransientErrors => lAttempt = DefaultMaxRetries

\* C19 as stated: when the response cannot be parsed the result is the
\* empty list, not null; the result is null only when the remote call
\* failed after the wrapper's retries.
C19_AsStated ==
    lpc = "done" =>
        /\ (lResponse # None /\ lResponse.kind = "null")
              => lResult = Lessons(<<>>)
        /\ lResult = Null => RemoteCallFailed

\* C19 (amended): when the response cannot be parsed the result is the
\* empty list, not null; the result is null exactly when the remote call
\* failed after the wrapper's retries or the response parsed to a value
\* that is no array.
C19_EmptyOnParseFailure ==
    lpc = "done" =>
        /\ (lResponse # None /\ lResponse.kind = "null")
              => lResult = Lessons(<<>>)
        /\ lResult = Null <=>
              \/ RemoteCallFailed
              \/ lResponse # None /\ lResponse.kind = "object"

\* An unparseable response on the attempt that follows a transient fault.
C19_Witness ==
    /\ lpc = "done"
    /\ lAttempt = 1
    /\ lResponse # None
    /\ lResponse.kind = "null"
    /\ lResult = Lessons(<<>>)

-----------------------------------------------------------------------------
(* Claims about the initialisation guard (SpecEntry)                       *)

InitializationFailed == ai = Null \/ aiInitializationError # Null

\* C20: when the client could not be initialised, a call of any exported
\* function, whatever its argument, ends at once with an initialisation
\* error: no request is made and no value, partial or default, is returned.
C20_FailsImmediately ==
    (InitializationFailed /\ epc # "call") =>
        /\ epc = "thrown"
        /\ ~contacted
        /\ eResult \in { FailedToInitialize(m) : m \in InitMessages }
                       \cup {NotInitialized}

\* getAiCorrections over an empty list, after the constructor threw.
C20_Witness ==
    /\ aiInitializationError # Null
    /\ entry = "getAiCorrections"
    /\ emptyInput
    /\ epc = "thrown"

-----------------------------------------------------------------------------
(* Claims about callApiWithRetry (SpecRetry)                               *)

IsTransientFailure(o) == o.k = "error" /\ o.v \in TransientErrors

IsOtherFailure(o) == o.k = "error" /\ o.v \notin TransientErrors

Finished == rpc \in {"returned", "thrown"}

\* C5: when every attempt fails with the transient-fault signature the
\* operation is invoked exactly maxRetries times (3 by default); when the
\* first attempt fails with another error it is invoked exactly once.
C5_ExactInvocationCount ==
    /\ (Finished /\ \A i \in 1..Len(outcomes) : IsTransientFailure(outcomes[i]))
          => Len(outcomes) = maxRetries
    /\ (Len(outcomes) >= 1 /\ IsOtherFailure(outcomes[1]))
          => (Finished /\ Len(outcomes) = 1)

C5_Witness ==
    /\ maxRetries = DefaultMaxRetries
    /\ rpc = "thrown"
    /\ Len(outcomes) = DefaultMaxRetries
    /\ \A i \in 1..Len(outcomes) : IsTransientFailure(outcomes[i])

\* C6: the operation is invoked at most maxRetries times, and never again
\* after an invocation succeeded.
C6_BoundedInvocations ==
    /\ Len(outcomes) <= maxRetries
    /\ \A i \in 1..Len(outcomes) :
          outcomes[i].k = "value" => (i = Len(outcomes) /\ rpc = "returned")

C6_Witness ==
    /\ maxRetries = DefaultMaxRetries
    /\ rpc = "returned"
    /\ Len(outcomes) = maxRetries
    /\ outcomes[Len(outcomes)].k = "value"

\* C7: no failure is swallowed: a non-transient failure, or a transient
\* failure of the last allowed attempt, makes the call fail with that very
\* error; a value is returned only if an invocation returned it.
C7_NoSwallowedFailure ==
    /\ \A i \in 1..Len(outcomes) :
          (IsOtherFailure(outcomes[i])
             \/ (IsTransientFailure(outcomes[i]) /\ i = maxRetries))
          => (rpc = "thrown" /\ retResult = outcomes[i])
    /\ rpc = "returned" =>
          \E i \in 1..Len(outcomes) :
              outcomes[i].k = "value" /\ retResult = outcomes[i]

C7_Witness ==
    /\ rpc = "thrown"
    /\ Len(outcomes) = 2
    /\ IsTransientFailure(outcomes[1])
    /\ IsOtherFailure(outcomes[2])
    /\ retResult = outcomes[2]

-----------------------------------------------------------------------------
(* Claims about parseJsonResponse (SpecParse)                              *)

HasAny(str, cs) == \E i \in 1..Len(str) : str[i] \in cs

IsJsonValue(v) == v.k \in {"num", "str", "arr", "obj"}

\* C8: parseJsonResponse never throws; it returns null for an absent or
\* empty text, for a text with no '{' or '[', for a text with no '}' or ']'
\* and for a text whose repaired slice cannot be decoded, and a decoded
\* value otherwise.
C8_NeverThrows ==
    ppc = "done" =>
        /\ parsed # Threw
        /\ parsed = Null \/ IsJsonValue(parsed)
        /\ (text = Undefined \/ text = <<>>) => parsed = Null
        /\ ~HasAny(text, {"{", "["}) => parsed = Null
        /\ ~HasAny(text, {"}", "]"}) => parsed = Null

\* A text with an opening and a closing character whose slice is no JSON.
C8_Witness ==
    /\ ppc = "done"
    /\ origin = "text"
    /\ text # Undefined
    /\ HasAny(text, {"{", "["})
    /\ HasAny(text, {"}", "]"})
    /\ parsed = Null

\* C9: a value encoded as JSON, fenced and surrounded by prose parses back
\* to a value equal to the original.
C9_RoundTrip ==
    (ppc = "done" /\ origin = "prose") => parsed = value

\* C10: valid JSON with one comma put before its closing '}' or ']' parses
\* to the value of the text without that comma.
C10_TrailingCommaRepaired ==
    (ppc = "done" /\ origin = "trailing") => parsed = value

-----------------------------------------------------------------------------
(* Further claims about getFeedbackOnAnswers (SpecFeedback)                *)

\* An answer the call can put to the judge: its block is found and the
\* callback of userAnswers.map returns a pair for it.
Gradable(ua) == AnswerOutcome(allQuestions, ua) = "pair"

\* C21: an answer whose questionId matches no supplied block is never part
\* of the judging request, and a call in which no submitted answer is
\* gradable returns an empty list without contacting the remote service.
C21_UnknownDropped ==
    /\ \A j \in 1..Len(fPairs) :
          FindIndex(allQuestions, fPairs[j].questionId) # 0
    /\ (fpc # "prepare" /\ \A i \in 1..Len(userAnswers) : ~Gradable(userAnswers[i]))
          => /\ fpc = "done"
             /\ fResult = Feedback(<<>>)
             /\ fPairs = <<>>
             /\ fAttempt = 0

\* The part of C21 on unknown question ids alone.
C21_StaleNeverSent ==
    \A j \in 1..Len(fPairs) : fPairs[j].questionId # StaleId

-----------------------------------------------------------------------------
(* A further claim about analyzeDocumentStructure (SpecAnalyze)            *)

\* C30: every chapter of a returned list has endPage <= the total page
\* count.
C30_EndWithinTotal ==
    apc = "done" =>
        \A i \in 1..Len(chapters) : chapters[i].endPage <= totalPages

-----------------------------------------------------------------------------
(* Claims about judging answers and applying corrections (SpecGrade)       *)

\* The explanation names the text t.
Contains(explanation, t) == \E i \in 1..Len(explanation) : explanation[i] = t

\* Question i is the one of the scenario of C22: option index 1 selected,
\* correctAnswerIndex 2.
WrongChoice(i) == gAnswers[i].answer = 1 /\ gQuestions[i].correctAnswerIndex = 2

\* C22 (as stated): when the user selected option index 1 of a
\* multiple-choice question whose correctAnswerIndex is 2, the feedback
\* item returned for that question has isCorrect false and an explanation
\* that contains the text of options[2].
C22_WrongChoiceFlagged ==
    gpc = "results" =>
        \A i \in 1..Len(gQuestions) :
            (gAnswers[i].answer = 1 /\ gQuestions[i].correctAnswerIndex = 2) =>
                \A j \in 1..Len(feedback.list) :
                    feedback.list[j].questionId = gQuestions[i].id =>
                        /\ ~feedback.list[j].isCorrect
                        /\ Contains(feedback.list[j].explanation,
                                    gQuestions[i].options[2 + 1])

\* C22 (amended): in that scenario the judging request carries the text
\* of options[1] as the user's answer and the text of options[2] as the
\* correct answer, and the feedback item returned for the question has
\* the isCorrect and the explanation of the judging response, whatever
\* they are, with the text of options[1] as userAnswer.
C22_JudgeTrusted ==
    gpc = "results" =>
        \A i \in 1..Len(gQuestions) :
            WrongChoice(i) =>
                /\ gSent[i].questionId = gQuestions[i].id
                /\ gSent[i].userAnswer = gQuestions[i].options[1 + 1]
                /\ gSent[i].correctAnswer = gQuestions[i].options[2 + 1]
                /\ \A j \in 1..Len(feedback.list) :
                      feedback.list[j].questionId = gQuestions[i].id =>
                          /\ feedback.list[j].isCorrect = gJudged[j].isCorrect
                          /\ feedback.list[j].explanation = gJudged[j].explanation
                          /\ feedback.list[j].userAnswer = gQuestions[i].options[1 + 1]

\* The scenario judged, the judge calling the wrong choice correct.
C22_Witness ==
    /\ gpc = "results"
    /\ \E i \in 1..Len(gQuestions) :
          /\ WrongChoice(i)
          /\ \E j \in 1..Len(feedback.list) :
                /\ feedback.list[j].questionId = gQuestions[i].id
                /\ feedback.list[j].isCorrect

\* What C23 says of one feedback item: changed to the correction text when
\* it was marked incorrect and a correction matches it, unchanged otherwise.
CorrectedAsClaimed(old, new, corr) ==
    IF ~old.isCorrect /\ FindCorrection(corr, old.questionId) # 0
    THEN new = [old EXCEPT !.explanation =
                   corr[FindCorrection(corr, old.questionId)].correction]
    ELSE new = old

\* C23: applying AI corrections changes only the feedback items that were
\* marked incorrect and whose questionId matches a returned correction;
\* every other item is left unchanged, in the session and in the sidebar.
C23_OnlyIncorrectMatched ==
    (gpc = "corrected" /\ corrections.k = "value") =>
        /\ Len(feedback.list) = Len(gBefore.list)
        /\ \A i \in 1..Len(gBefore.list) :
              CorrectedAsClaimed(gBefore.list[i], feedback.list[i], corrections.v)

\* The same in the main session alone.
C23_InSession ==
    surface = "session" => C23_OnlyIncorrectMatched

-----------------------------------------------------------------------------
(* Claims about the Test Me sidebar (SpecSidebar)                          *)

\* C24: once the user has abandoned a pending request (closed or reset the
\* sidebar while question generation was in flight), the completion of that
\* request changes neither the current step nor the stored questions.
C24_LateResultDiscarded ==
    (sLast = "settle" /\ sAbandoned) =>
        /\ currentStep = sBefore.step
        /\ questionsToDisplay = sBefore.questions

\* C25: for every normalized fill_in_the_blank_question block,
\* correctAnswers.length = questionParts.length - 1, or the number of
\* blanks presented to the user equals correctAnswers.length.
C25_BlanksMatchAnswers ==
    questionsToDisplay # Null =>
        \A i \in 1..Len(questionsToDisplay.list) :
            LET b == questionsToDisplay.list[i]
            IN  b.type = FillInTheBlank =>
                   \/ b.correctAnswers = b.questionParts - 1
                   \/ BlanksPresented(b) = b.correctAnswers

-----------------------------------------------------------------------------
(* Claims about selecting a file (SpecUpload)                              *)

\* C28: every handleFileSelect invocation that runs to completion leaves
\* appState as 'chapter_selection' or 'error', never 'analyzing', and
\* leaves the isSavingRef guard false, also when two file selections
\* overlap and when saving the book fails.
C28_EndsSettled ==
    uLast.k = "end" =>
        /\ appState \in {"chapter_selection", "error"}
        /\ ~isSavingRef

\* C28 for an invocation that overlaps no other and is not followed by a
\* return to the upload screen.
C28_AloneAndSaved ==
    (uLast.k = "end" /\ \A i \in Selections : i # uLast.of => upc[i] = "idle")
        => appState \in {"chapter_selection", "error"}

\* The part of C24 on App.tsx: the completion of a handleFileSelect
\* invocation abandoned by handleBackToUpload changes neither appState nor
\* the active book.
C24_UploadDiscarded ==
    (uLast.k = "end" /\ uAbandoned[uLast.of]) =>
        /\ appState = uBefore.appState
        /\ activeBook = uBefore.activeBook

-----------------------------------------------------------------------------
(* Claims about the session content (SpecContent, SpecContentFair)         *)

\* The block is in the content.
InContent(b) == \E j \in 1..Len(interactiveContent) : interactiveContent[j] = b

\* C26: question blocks appended to the session content are never lost:
\* under any interleaving with a handleGetDeeperExplanation request started
\* before the questions were appended and completed afterwards, the content
\* holds every appended question block and the spliced explanation block.
C26_AppendedNeverLost ==
    /\ \A i \in 1..Len(appended) : InContent(appended[i])
    /\ dBlock # None => InContent(dBlock)

C29_ClearedOnceSettled == kpc \in {"done", "thrown"} => ~isGeneratingMore

-----------------------------------------------------------------------------
(* Claims about the analysis of chapters (SpecChapters)                    *)

\* Chapter i of the list holds the lessons its analysis returned and is
\* not marked as being analysed.
HoldsOwnLessons(list, i) ==
    /\ list[i].lessons = cLessons[i]
    /\ ~list[i].isAnalyzing

\* C27: lessons stored for a chapter are never lost: when the analyses of
\* two different chapters were in flight at the same time, after both
\* complete each chapter holds the lessons of its own analysis and has
\* isAnalyzing false, in the displayed chapters and in the saved book.
C27_LessonsNeverLost ==
    (\A i \in Analysed : cpc[i] = "done") =>
        \A i \in Analysed :
            /\ HoldsOwnLessons(appChapters, i)
            /\ HoldsOwnLessons(savedChapters, i)
            /\ HoldsOwnLessons(bookChapters, i)

\* The part of C29 on a chapter's isAnalyzing: once the awaited analysis
\* has settled the flag of the chapter is false.
C29_AnalyzingCleared ==
    \A i \in Analysed :
        (cpc[i] = "thrown" /\ \A j \in Analysed : cpc[j] \notin {"pending", "saving", "savingState"})
            => ~appChapters[i].isAnalyzing

=============================================================================
